---- MODULE Spec2Model ----
(***************************************************************************)
(* Model of the 24-7 audio tour: landmark selection and the client         *)
(* pipeline findBestNearbyLandmark (lib/landmarks), the landmark and area  *)
(* narrative requests and the significance scoring request (app/api).      *)
(*                                                                         *)
(* Strings are TLA+ strings; lower-casing, substring search, trimming and  *)
(* key building are computed on them as the code computes them.  Ratings   *)
(* are kept in tenths (90 is 9.0); a rating of 0 stands for an absent one, *)
(* which every use in the code treats like 0 (a falsy value).              *)
(***************************************************************************)
EXTENDS Integers, Sequences, FiniteSets, TLC

VARIABLES
    pc,                    \* findBestNearbyLandmark: the await it is suspended at, or how it ended
    hasGenerateNarrative,  \* the optional parameter generateNarrative is supplied
    hasScoreSignificance,  \* the optional parameter scoreSignificance is supplied
    hasFetchAreaNarrative, \* the optional parameter fetchAreaNarrative is supplied
    significanceThreshold, \* the parameter significanceThreshold
    landmarks,             \* what fetchLandmarks resolved to
    significanceScores,    \* the Map of landmark id to score
    bestLandmark,          \* the local bestLandmark
    result,                \* the value findBestNearbyLandmark resolved to
    stages,                \* history: the pipeline stages entered, in order
    selectCalls,           \* history: the calls of selectBestLandmarkWithSignificance
    usedHeuristic,         \* history: selectBestLandmark was called
    thrown,                \* the message of the error findBestNearbyLandmark rejected with
    narrativeError,        \* history: the error the generateNarrative call rejected with
    reqKind,               \* narrative request: "landmark" (api/narrative) or "area" (api/area)
    reqPc,                 \* narrative request: the await its handler is suspended at
    reqLandmark,           \* narrative request: the landmark of the body
    apiKey,                \* process.env.OPENAI_API_KEY is configured
    chanState,             \* landmark request: each source channel's progress
    chanDocs,              \* landmark request: what each source channel resolved to
    titles,                \* the search hits whose summaries are being fetched
    areaInfo,              \* area request: what fetchAreaInfo resolved to
    sources,               \* the sources handed to the narrative step
    failures,              \* history: the provider calls of the request that failed
    llmContent,            \* history: the message content the generative service sent
    response,              \* the response of the request
    chanScore,             \* scoring: the points each signal has contributed so far
    extratags,             \* history: the extratags the geodata check read, NotRead before
    body,                  \* validation: the route of a request and what it carries
    providerCalls,         \* history: the handler has issued a provider call
    tasks,                 \* validation: the scoring task of each landmark of the request
    dataCache,             \* the replies the server keeps, by the URL of the call
    providerNow,           \* what each provider would answer to a call made now
    requests,              \* the scoring requests that share the server
    templateCalls,         \* the calls of generateLandmarkNarrative and what they returned
    tts,                   \* speech module: currentUtterance, isSpeaking, isPaused
    synth,                 \* the browser's speech synthesizer
    utterances,            \* the utterance and the promise of every speakText call so far
    home                   \* the page: its state hooks and where handlePlayClick stands

pipelineVars == <<pc, hasGenerateNarrative, hasScoreSignificance, hasFetchAreaNarrative,
                  significanceThreshold, landmarks, significanceScores, bestLandmark,
                  result, stages, selectCalls, usedHeuristic, thrown, narrativeError>>

requestVars == <<reqKind, reqPc, reqLandmark, apiKey, chanState, chanDocs, titles,
                 areaInfo, sources, failures, llmContent, response>>

scoringVars == <<chanScore, extratags>>

validationVars == <<body, providerCalls, tasks>>

cacheVars == <<dataCache, providerNow, requests>>

templateVars == <<templateCalls>>

speechVars == <<tts, synth, utterances, home>>

vars == <<pipelineVars, requestVars, scoringVars, validationVars, cacheVars, templateVars, speechVars>>

\* the variables an action of one component leaves alone
notPipeline == <<requestVars, scoringVars, validationVars, cacheVars, templateVars, speechVars>>
notRequest == <<pipelineVars, scoringVars, validationVars, cacheVars, templateVars, speechVars>>

(***************************************************************************)
(* Bounds of the model                                                     *)
(***************************************************************************)
MaxLandmarks == 2
MaxSearchHits == 2

(***************************************************************************)
(* JavaScript values and string functions                                  *)
(***************************************************************************)
\* null / undefined
Null == [null |-> TRUE]

Max(a, b) == IF a >= b THEN a ELSE b
Min(a, b) == IF a <= b THEN a ELSE b

LowerChar(c) ==
    CASE c = "A" -> "a" [] c = "B" -> "b" [] c = "C" -> "c" [] c = "D" -> "d"
      [] c = "E" -> "e" [] c = "F" -> "f" [] c = "G" -> "g" [] c = "H" -> "h"
      [] c = "I" -> "i" [] c = "J" -> "j" [] c = "K" -> "k" [] c = "L" -> "l"
      [] c = "M" -> "m" [] c = "N" -> "n" [] c = "O" -> "o" [] c = "P" -> "p"
      [] c = "Q" -> "q" [] c = "R" -> "r" [] c = "S" -> "s" [] c = "T" -> "t"
      [] c = "U" -> "u" [] c = "V" -> "v" [] c = "W" -> "w" [] c = "X" -> "x"
      [] c = "Y" -> "y" [] c = "Z" -> "z" [] OTHER -> c

RECURSIVE ToLowerCase(_)
ToLowerCase(s) ==
    IF s = "" THEN ""
    ELSE IF Len(s) = 1 THEN LowerChar(s)
    ELSE LET half == Len(s) \div 2
         IN  ToLowerCase(SubSeq(s, 1, half)) \o ToLowerCase(SubSeq(s, half + 1, Len(s)))

\* String.prototype.includes
Includes(s, kw) ==
    \E i \in 1..(Len(s) - Len(kw) + 1) : SubSeq(s, i, i + Len(kw) - 1) = kw

IsWhitespace(c) == c \in {" ", "\n", "\t"}

RECURSIVE TrimStart(_)
TrimStart(s) ==
    IF s = "" THEN ""
    ELSE IF IsWhitespace(SubSeq(s, 1, 1)) THEN TrimStart(SubSeq(s, 2, Len(s)))
    ELSE s

RECURSIVE TrimEnd(_)
TrimEnd(s) ==
    IF s = "" THEN ""
    ELSE IF IsWhitespace(SubSeq(s, Len(s), Len(s))) THEN TrimEnd(SubSeq(s, 1, Len(s) - 1))
    ELSE s

\* String.prototype.trim
Trim(s) == TrimEnd(TrimStart(s))

Digit(d) ==
    CASE d = 0 -> "0" [] d = 1 -> "1" [] d = 2 -> "2" [] d = 3 -> "3" [] d = 4 -> "4"
      [] d = 5 -> "5" [] d = 6 -> "6" [] d = 7 -> "7" [] d = 8 -> "8" [] d = 9 -> "9"

\* a natural number in a template literal
RECURSIVE NatToString(_)
NatToString(n) ==
    IF n < 10 THEN Digit(n) ELSE NatToString(n \div 10) \o Digit(n % 10)

\* a number given in tenths in a template literal: 13 is "1.3", 20 is "2"
TenthsToString(t) ==
    IF t % 10 = 0 THEN NatToString(t \div 10)
    ELSE NatToString(t \div 10) \o "." \o Digit(t % 10)

Range(s) == {s[i] : i \in DOMAIN s}

(***************************************************************************)
(* Landmarks (types/index.ts)                                              *)
(***************************************************************************)
Landmark(id, name, category, distance, rating, description) ==
    [id |-> id, name |-> name, category |-> category, distance |-> distance,
     location |-> [lat |-> 51, lng |-> 7],
     rating |-> rating, description |-> description]

\* The places the search provider can return.  Two of them carry the same id
\* and two are at the same distance.
Obelisk == Landmark("a", "Obelisk", "Monument", 50, 90, "")
Cafe == Landmark("b", "Corner Cafe", "Cafe", 100, 0, "")
CityMuseum == Landmark("c", "City Museum", "History Museum", 500, 75, "Founded in 1900.")
OldMill == Landmark("a", "Old Mill", "Historic Site", 100, 0, "")
Hangar == Landmark("d", "Hangar", "Warehouse", 1250, 0, "")

LandmarkPool == {Obelisk, Cafe, CityMuseum, OldMill, Hangar}

\* a place that selectBestLandmark scores like the cafe
Bakery == Landmark("e", "Bakery", "Bakery", 100, 0, "")

\* a place rated 7.0 whose category is a keyword of the significance score only
Footbridge == Landmark("f", "Footbridge", "Bridge", 300, 70, "")

TieLists == {<<Cafe, Bakery>>, <<Bakery, Cafe>>}

LandmarkIds == {l.id : l \in LandmarkPool}

\* the lists of at most n distinct places
LandmarkLists(n) ==
    {ls \in UNION {[1..k -> LandmarkPool] : k \in 0..n} :
        \A i, j \in DOMAIN ls : i # j => ls[i] # ls[j]}

\* what fetchLandmarks can resolve to
NearbyLandmarks == LandmarkLists(MaxLandmarks)

ScoreValues == {10, 25, 35}

\* an optional string that is absent
Undefined == "<undefined>"

\* a string that is neither missing nor empty
Truthy(str) == str # Undefined /\ str # ""

\* the messages of the errors fetchLandmarks can reject with
SearchErrors == {"Network Error", "Failed to fetch places: Unknown error"}

\* what fetchAreaNarrative can resolve to
AreaResults ==
    [narrative : {"", "You are in Soho."}, areaName : {Undefined, "Soho"}]

\* what generateNarrative can resolve to
NarrativeTexts == {"", "A story about this place."}

(***************************************************************************)
(* Selection (lib/landmarks)                                               *)
(***************************************************************************)
SIGNIFICANCE_THRESHOLD == 30

Thresholds == {15, 25, SIGNIFICANCE_THRESHOLD, 45}

HeuristicKeywords ==
    {"monument", "historic", "landmark", "museum", "memorial",
     "plaza", "square", "cathedral", "church", "temple"}

\* the score of selectBestLandmark's map callback, in tenths of a point
HeuristicScore(landmark) ==
    LET categoryLower == ToLowerCase(landmark.category)
    IN  (IF landmark.rating # 0 THEN landmark.rating * 10 ELSE 0)
        + Max(0, 1000 - landmark.distance)
        + (IF \E keyword \in HeuristicKeywords : Includes(categoryLower, keyword)
           THEN 200 ELSE 0)

\* landmarks.map: the scores of the landmarks, in the order of the list
RECURSIVE HeuristicScores(_)
HeuristicScores(ls) ==
    IF Len(ls) = 0 THEN <<>> ELSE <<HeuristicScore(Head(ls))>> \o HeuristicScores(Tail(ls))

\* a selection that gives up when the best landmark scores nothing
SelectBestLandmarkPositiveOnly(ls) ==
    IF Len(ls) = 0 \/ \A i \in DOMAIN ls : HeuristicScore(ls[i]) <= 0 THEN Null
    ELSE ls[CHOOSE i \in DOMAIN ls :
                \A j \in DOMAIN ls : HeuristicScore(ls[i]) >= HeuristicScore(ls[j])]

\* a sort that puts the last of the landmarks with the highest score first
SelectBestLandmarkLastOfTies(ls) ==
    IF Len(ls) = 0 THEN Null
    ELSE LET scored == HeuristicScores(ls)
         IN  ls[CHOOSE i \in DOMAIN ls :
                    \A j \in DOMAIN ls :
                        \/ scored[i] > scored[j]
                        \/ scored[i] = scored[j] /\ i >= j]

\* scored.sort((a, b) => b.score - a.score)[0]: the sort is stable, so the first
\* of the landmarks with the highest score comes first
SelectBestLandmark(ls) ==
    IF Len(ls) = 0 THEN Null
    ELSE LET scored == HeuristicScores(ls)
         IN  ls[CHOOSE i \in DOMAIN ls :
                    \A j \in DOMAIN ls :
                        \/ scored[i] > scored[j]
                        \/ scored[i] = scored[j] /\ i <= j]

\* significanceScores.get(landmark.id) || 0
ScoreOf(scores, landmark) ==
    IF landmark.id \in DOMAIN scores THEN scores[landmark.id] ELSE 0

\* landmarks.filter(score >= threshold)
SignificantLandmarks(ls, scores, threshold) ==
    LET Keep(l) == ScoreOf(scores, l) >= threshold
    IN  SelectSeq(ls, Keep)

\* a reduce callback that keeps the farther landmark
CloserReversed(closest, current) ==
    IF current.distance > closest.distance THEN current ELSE closest

\* a reduce callback that lets the later of two equally distant landmarks win
CloserOrLater(closest, current) ==
    IF current.distance <= closest.distance THEN current ELSE closest

\* the reduce callback: current.distance < closest.distance ? current : closest
Closer(closest, current) ==
    IF current.distance < closest.distance THEN current ELSE closest

\* Array.prototype.reduce without an initial value, on a non-empty list
RECURSIVE ReduceClosest(_)
ReduceClosest(ls) ==
    IF Len(ls) = 1 THEN ls[1]
    ELSE Closer(ReduceClosest(SubSeq(ls, 1, Len(ls) - 1)), ls[Len(ls)])

SelectBestLandmarkWithSignificance(ls, scores, threshold) ==
    IF Len(ls) = 0 THEN Null
    ELSE LET significantLandmarks == SignificantLandmarks(ls, scores, threshold)
         IN  IF Len(significantLandmarks) = 0 THEN Null
             ELSE ReduceClosest(significantLandmarks)

(***************************************************************************)
(* The template narrative (lib/landmarks)                                  *)
(***************************************************************************)
DistanceText(distance) ==
    IF distance < 100 THEN "right here"
    ELSE IF distance < 500 THEN "just steps away"
    ELSE IF distance < 1000 THEN "a short walk away"
    ELSE "about " \o TenthsToString((distance + 50) \div 100) \o " kilometers away"

GetCategoryContext(category) ==
    LET categoryLower == ToLowerCase(category)
    IN  IF Includes(categoryLower, "monument") \/ Includes(categoryLower, "memorial")
        THEN "This monument stands as a testament to the people and events that shaped this place. "
        ELSE IF Includes(categoryLower, "museum")
        THEN "This museum preserves and shares the stories of this region. "
        ELSE IF Includes(categoryLower, "historic") \/ Includes(categoryLower, "historic site")
        THEN "This historic site has witnessed countless moments in history. "
        ELSE IF Includes(categoryLower, "cathedral") \/ Includes(categoryLower, "church")
                \/ Includes(categoryLower, "temple")
        THEN "This sacred space has been a center of community and spirituality for generations. "
        ELSE IF Includes(categoryLower, "plaza") \/ Includes(categoryLower, "square")
        THEN "This public square has been a gathering place for the community. "
        ELSE ""

\* a narrative that carries the number of the calls made so far
GenerateLandmarkNarrativeNumbered(landmark) ==
    "You're standing near " \o landmark.name \o ", call "
        \o NatToString(Len(templateCalls)) \o "."

GenerateLandmarkNarrative(landmark) ==
    "You're standing near " \o landmark.name \o ", "
        \o DistanceText(landmark.distance) \o ". "
        \o GetCategoryContext(landmark.category)
        \o (IF Truthy(landmark.description) THEN " " \o landmark.description
            ELSE " This " \o ToLowerCase(landmark.category)
                     \o " holds significance in the local area. ")
        \o " Take a moment to appreciate the history and culture that surrounds you."

(***************************************************************************)
(* The components at rest                                                  *)
(***************************************************************************)
Channels == {"wikipedia", "osm", "wikidata"}

RequestIdle ==
    /\ reqKind = "none"
    /\ reqPc = "idle"
    /\ reqLandmark = Null
    /\ apiKey = FALSE
    /\ chanState = [c \in Channels |-> "idle"]
    /\ chanDocs = [c \in Channels |-> <<>>]
    /\ titles = <<>>
    /\ areaInfo = Null
    /\ sources = <<>>
    /\ failures = {}
    /\ llmContent = Undefined
    /\ response = Null

\* the speech module as it is loaded: the initial values of its three variables
NoSpeech == [currentUtterance |-> 0, isSpeaking |-> FALSE, isPaused |-> FALSE]

\* the page as useState initialises it; run is where handlePlayClick stands
HomeIdle == [isLoading |-> FALSE, isPlaying |-> FALSE, isPaused |-> FALSE,
             hasNarrative |-> FALSE, run |-> "idle", awaits |-> 0]

SpeechIdle ==
    /\ tts = NoSpeech
    /\ synth = [paused |-> FALSE]
    /\ utterances = <<>>
    /\ home = HomeIdle

\* the geodata check has not read a body
NotRead == [notRead |-> TRUE]

ScoringIdle ==
    /\ chanScore = [c \in Channels |-> 0]
    /\ extratags = NotRead
    /\ body = Null
    /\ providerCalls = FALSE
    /\ tasks = <<>>
    /\ templateCalls = <<>>
    /\ SpeechIdle
    /\ dataCache = <<>>
    /\ providerNow = Null
    /\ requests = <<>>

PipelineIdle ==
    /\ pc = "idle"
    /\ hasGenerateNarrative = FALSE
    /\ hasScoreSignificance = FALSE
    /\ hasFetchAreaNarrative = FALSE
    /\ significanceThreshold = SIGNIFICANCE_THRESHOLD
    /\ landmarks = <<>>
    /\ significanceScores = [id \in {} |-> 0]
    /\ bestLandmark = Null
    /\ result = Null
    /\ stages = <<>>
    /\ selectCalls = <<>>
    /\ usedHeuristic = FALSE
    /\ thrown = Undefined
    /\ narrativeError = Undefined

(***************************************************************************)
(* findBestNearbyLandmark (lib/landmarks)                                  *)
(*                                                                         *)
(* One action per continuation: the code between two awaits runs without   *)
(* interruption.  stages records the stage of the pipeline each call       *)
(* enters: SEARCHING is the fetchLandmarks call, SCORING the               *)
(* scoreSignificance call, SELECTING the selection, AREA_FALLBACK the      *)
(* fetchAreaNarrative call, AGGREGATING and SYNTHESIZING the               *)
(* generateNarrative call (the narrative request gathers its sources and   *)
(* then writes the text), DONE the return of a value.                      *)
(***************************************************************************)
\* what scoreSignificance can resolve to for the list ls: a score for each of
\* some of its landmarks, in the order of the list
RECURSIVE ScoredResults(_, _, _)
ScoredResults(ls, S, f) ==
    IF Len(ls) = 0 THEN <<>>
    ELSE LET n == Len(ls)
             front == ScoredResults(SubSeq(ls, 1, n - 1), S, f)
         IN  IF n \in S THEN Append(front, [landmark |-> ls[n], score |-> f[n]])
             ELSE front

ScorerOutcomes(ls) ==
    UNION {{ScoredResults(ls, S, f) : f \in [S -> ScoreValues]} : S \in SUBSET DOMAIN ls}

\* scoredResults.forEach(({landmark, score}) => significanceScores.set(landmark.id, score))
RECURSIVE ScoresMap(_)
ScoresMap(scoredResults) ==
    IF Len(scoredResults) = 0 THEN [id \in {} |-> 0]
    ELSE LET n == Len(scoredResults)
             m == ScoresMap(SubSeq(scoredResults, 1, n - 1))
             last == scoredResults[n]
         IN  [id \in DOMAIN m \cup {last.landmark.id} |->
                 IF id = last.landmark.id THEN last.score ELSE m[id]]

\* an emptiness test that never answers yes
NoLandmarksFoundNever(ls) == Len(ls) < 0

\* landmarks.length === 0
NoLandmarksFound(ls) == Len(ls) = 0

\* a second threshold without its floor
RelaxedThresholdNoFloor(threshold) == threshold - 10

\* the threshold of the second attempt
RelaxedThreshold(threshold) == Max(20, threshold - 10)

\* a scoring path that turns to selectBestLandmark when no landmark qualifies
SelectWithRelaxationThenHeuristic(ls, scores, threshold) ==
    LET first == SelectBestLandmarkWithSignificance(ls, scores, threshold)
        second == SelectBestLandmarkWithSignificance(ls, scores, RelaxedThreshold(threshold))
    IN  [best |-> IF second = Null THEN SelectBestLandmark(ls) ELSE second,
         calls |-> IF first = Null /\ threshold > 20
                   THEN <<[threshold |-> threshold, returned |-> first],
                          [threshold |-> RelaxedThreshold(threshold), returned |-> second]>>
                   ELSE <<[threshold |-> threshold, returned |-> first]>>]

\* the selection on the scoring path: the landmark chosen and the calls made
SelectWithRelaxation(ls, scores, threshold) ==
    LET first == SelectBestLandmarkWithSignificance(ls, scores, threshold)
        firstCall == [threshold |-> threshold, returned |-> first]
    IN  IF first = Null /\ threshold > 20
        THEN LET second == SelectBestLandmarkWithSignificance(
                               ls, scores, RelaxedThreshold(threshold))
             IN  [best |-> second,
                  calls |-> <<firstCall,
                              [threshold |-> RelaxedThreshold(threshold),
                               returned |-> second]>>]
        ELSE [best |-> first, calls |-> <<firstCall>>]

\* the block "try to get area narrative instead"
AreaFallback(st) ==
    IF hasFetchAreaNarrative
    THEN /\ pc' = "fetchAreaNarrative"
         /\ stages' = st \o <<"AREA_FALLBACK">>
         /\ UNCHANGED result
    ELSE /\ pc' = "returned"
         /\ stages' = st \o <<"DONE">>
         /\ result' = Null

\* from "if (!bestLandmark)" to the next await or the return
AfterSelection(best, st) ==
    /\ bestLandmark' = best
    /\ IF best = Null
       THEN AreaFallback(st)
       ELSE IF hasGenerateNarrative
            THEN /\ pc' = "generateNarrative"
                 /\ stages' = st \o <<"AGGREGATING", "SYNTHESIZING">>
                 /\ UNCHANGED result
            ELSE /\ pc' = "returned"
                 /\ stages' = st \o <<"DONE">>
                 /\ result' = [landmark |-> best,
                               narrative |-> GenerateLandmarkNarrative(best)]

params == <<hasGenerateNarrative, hasScoreSignificance, hasFetchAreaNarrative,
            significanceThreshold>>

Init ==
    /\ pc = "fetchLandmarks"
    /\ hasGenerateNarrative \in BOOLEAN
    /\ hasScoreSignificance \in BOOLEAN
    /\ hasFetchAreaNarrative \in BOOLEAN
    /\ significanceThreshold \in Thresholds
    /\ landmarks = <<>>
    /\ significanceScores = [id \in {} |-> 0]
    /\ bestLandmark = Null
    /\ result = Null
    /\ stages = <<"SEARCHING">>
    /\ selectCalls = <<>>
    /\ usedHeuristic = FALSE
    /\ thrown = Undefined
    /\ narrativeError = Undefined
    /\ RequestIdle
    /\ ScoringIdle

FetchLandmarksResolves(ls) ==
    /\ pc = "fetchLandmarks"
    /\ landmarks' = ls
    /\ IF NoLandmarksFound(ls)
       THEN /\ AreaFallback(stages)
            /\ UNCHANGED <<bestLandmark, usedHeuristic>>
       ELSE IF hasScoreSignificance
            THEN /\ pc' = "scoreSignificance"
                 /\ stages' = stages \o <<"SCORING">>
                 /\ UNCHANGED <<bestLandmark, result, usedHeuristic>>
            ELSE /\ usedHeuristic' = TRUE
                 /\ AfterSelection(SelectBestLandmark(ls), stages \o <<"SELECTING">>)
    /\ UNCHANGED <<notPipeline, params, thrown, narrativeError, significanceScores, selectCalls>>

\* the outer catch logs and rethrows
FetchLandmarksRejects(error) ==
    /\ pc = "fetchLandmarks"
    /\ pc' = "thrown"
    /\ thrown' = error
    /\ UNCHANGED <<notPipeline, params, narrativeError, landmarks, significanceScores,
                   bestLandmark, result,
                   stages, selectCalls, usedHeuristic>>

ScoreSignificanceResolves(scoredResults) ==
    /\ pc = "scoreSignificance"
    /\ LET scores == ScoresMap(scoredResults)
           sel == SelectWithRelaxation(landmarks, scores, significanceThreshold)
       IN  /\ significanceScores' = scores
           /\ selectCalls' = sel.calls
           /\ AfterSelection(sel.best, stages \o <<"SELECTING">>)
    /\ UNCHANGED <<notPipeline, params, thrown, narrativeError, landmarks, usedHeuristic>>

ScoreSignificanceRejects ==
    /\ pc = "scoreSignificance"
    /\ usedHeuristic' = TRUE
    /\ AfterSelection(SelectBestLandmark(landmarks), stages \o <<"SELECTING">>)
    /\ UNCHANGED <<notPipeline, params, thrown, narrativeError, landmarks, significanceScores,
                   selectCalls>>

FetchAreaNarrativeResolves(areaResult) ==
    /\ pc = "fetchAreaNarrative"
    /\ pc' = "returned"
    /\ stages' = stages \o <<"DONE">>
    /\ result' = [landmark |-> Null, narrative |-> areaResult.narrative,
                  areaName |-> areaResult.areaName]
    /\ UNCHANGED <<notPipeline, params, thrown, narrativeError, landmarks, significanceScores,
                   bestLandmark,
                   selectCalls, usedHeuristic>>

\* a catch block that raises the error of the area call again
FetchAreaNarrativeRejectsRaising ==
    /\ pc = "fetchAreaNarrative"
    /\ pc' = "thrown"
    /\ thrown' = "Failed to generate area narrative"
    /\ UNCHANGED <<notPipeline, params, narrativeError, landmarks, significanceScores, bestLandmark,
                   result, stages, selectCalls, usedHeuristic>>

FetchAreaNarrativeRejects ==
    /\ pc = "fetchAreaNarrative"
    /\ pc' = "returned"
    /\ stages' = stages \o <<"DONE">>
    /\ result' = Null
    /\ UNCHANGED <<notPipeline, params, thrown, narrativeError, landmarks, significanceScores,
                   bestLandmark,
                   selectCalls, usedHeuristic>>

GenerateNarrativeResolves(text) ==
    /\ pc = "generateNarrative"
    /\ pc' = "returned"
    /\ stages' = stages \o <<"DONE">>
    /\ result' = [landmark |-> bestLandmark, narrative |-> text]
    /\ UNCHANGED <<notPipeline, params, thrown, narrativeError, landmarks, significanceScores,
                   bestLandmark,
                   selectCalls, usedHeuristic>>

\* a catch block that gives the landmark up
GenerateNarrativeRejectsGivingUp ==
    /\ pc = "generateNarrative"
    /\ pc' = "returned"
    /\ stages' = stages \o <<"DONE">>
    /\ narrativeError' = "Failed to generate narrative"
    /\ result' = Null
    /\ UNCHANGED <<notPipeline, params, thrown, landmarks, significanceScores, bestLandmark,
                   selectCalls, usedHeuristic>>

\* the catch keeps the template narrative computed before the call
GenerateNarrativeRejects ==
    /\ pc = "generateNarrative"
    /\ pc' = "returned"
    /\ stages' = stages \o <<"DONE">>
    /\ narrativeError' = "Failed to generate narrative"
    /\ result' = [landmark |-> bestLandmark,
                  narrative |-> GenerateLandmarkNarrative(bestLandmark)]
    /\ UNCHANGED <<notPipeline, params, thrown, landmarks, significanceScores, bestLandmark,
                   selectCalls, usedHeuristic>>

Next ==
    \/ \E ls \in NearbyLandmarks : FetchLandmarksResolves(ls)
    \/ \E error \in SearchErrors : FetchLandmarksRejects(error)
    \/ /\ pc = "scoreSignificance"
       /\ \E scoredResults \in ScorerOutcomes(landmarks) :
              ScoreSignificanceResolves(scoredResults)
    \/ ScoreSignificanceRejects
    \/ \E areaResult \in AreaResults : FetchAreaNarrativeResolves(areaResult)
    \/ FetchAreaNarrativeRejects
    \/ \E text \in NarrativeTexts : GenerateNarrativeResolves(text)
    \/ GenerateNarrativeRejects

Spec == Init /\ [][Next]_vars

(***************************************************************************)
(* The selection functions on their own: the inputs are drawn at the       *)
(* start and each action applies one function to them.                     *)
(***************************************************************************)
ScoreMaps == UNION {[S -> ScoreValues] : S \in SUBSET LandmarkIds}

InitSelect ==
    /\ pc = "select"
    /\ hasGenerateNarrative = FALSE
    /\ hasScoreSignificance = FALSE
    /\ hasFetchAreaNarrative = FALSE
    /\ significanceThreshold \in Thresholds
    /\ landmarks \in NearbyLandmarks \cup TieLists
    /\ significanceScores \in ScoreMaps
    /\ bestLandmark = Null
    /\ result = Null
    /\ stages = <<>>
    /\ selectCalls = <<>>
    /\ usedHeuristic = FALSE
    /\ thrown = Undefined
    /\ narrativeError = Undefined
    /\ RequestIdle
    /\ ScoringIdle

CallSelectBestLandmarkWithSignificance ==
    /\ pc = "select"
    /\ pc' = "selected"
    /\ bestLandmark' = SelectBestLandmarkWithSignificance(
                           landmarks, significanceScores, significanceThreshold)
    /\ UNCHANGED <<notPipeline, params, thrown, narrativeError, landmarks, significanceScores,
                   result, stages,
                   selectCalls, usedHeuristic>>

CallSelectBestLandmark ==
    /\ pc = "select"
    /\ pc' = "selected"
    /\ usedHeuristic' = TRUE
    /\ bestLandmark' = SelectBestLandmark(landmarks)
    /\ UNCHANGED <<notPipeline, params, thrown, narrativeError, landmarks, significanceScores,
                   result, stages,
                   selectCalls>>

NextSelect ==
    \/ CallSelectBestLandmarkWithSignificance
    \/ CallSelectBestLandmark

SpecSelect == InitSelect /\ [][NextSelect]_vars

(***************************************************************************)
(* Properties of the selection and of findBestNearbyLandmark               *)
(***************************************************************************)
\* the score the selection consults for a landmark: the entry of its id, 0 without one
ScoreConsulted(l) ==
    IF l.id \in DOMAIN significanceScores THEN significanceScores[l.id] ELSE 0

Qualifies(l, t) == ScoreConsulted(l) >= t

\* L is a landmark of the list that reaches t, and none that reaches t is closer
ClosestQualifying(L, t) ==
    /\ L \in Range(landmarks)
    /\ Qualifies(L, t)
    /\ \A o \in Range(landmarks) : Qualifies(o, t) => o.distance >= L.distance

NoneQualifies(t) == \A o \in Range(landmarks) : ~Qualifies(o, t)

\* C5: selectBestLandmarkWithSignificance returns a landmark only if its score
\* reaches the threshold and no landmark that reaches the threshold is strictly
\* closer, and returns none exactly when no landmark reaches the threshold.
C5_ClosestAboveThreshold ==
    (pc = "selected" /\ ~usedHeuristic) =>
        /\ bestLandmark # Null => ClosestQualifying(bestLandmark, significanceThreshold)
        /\ bestLandmark = Null <=> NoneQualifies(significanceThreshold)

\* scores {A: 25, B: 35}, distances {A: 100, B: 500}, threshold 30 give B
C5_Witness ==
    /\ pc = "selected" /\ ~usedHeuristic
    /\ landmarks = <<Cafe, CityMuseum>>
    /\ Cafe.distance = 100 /\ CityMuseum.distance = 500
    /\ ScoreConsulted(Cafe) = 25 /\ ScoreConsulted(CityMuseum) = 35
    /\ significanceThreshold = 30
    /\ bestLandmark = CityMuseum

ScoringSucceeded == Len(selectCalls) > 0

\* max(20, t - 10)
Relaxed(t) == IF t - 10 > 20 THEN t - 10 ELSE 20

\* the outcome the retry is to have when no landmark reaches t
RelaxedOutcome(t) ==
    IF NoneQualifies(Relaxed(t)) THEN bestLandmark = Null
    ELSE ClosestQualifying(bestLandmark, Relaxed(t))

\* C6 as stated: when scoring succeeds and no landmark reaches the threshold t,
\* exactly one further selection attempt is made, at max(20, t - 10), and the
\* landmark finally selected is the closest with score >= max(20, t - 10), if any.
C6_AlwaysOneRetry ==
    (ScoringSucceeded /\ NoneQualifies(significanceThreshold)) =>
        /\ Len(selectCalls) = 2
        /\ selectCalls[1].threshold = significanceThreshold
        /\ selectCalls[1].returned = Null
        /\ selectCalls[2].threshold = Relaxed(significanceThreshold)
        /\ RelaxedOutcome(significanceThreshold)

\* C6 amended: when scoring succeeds and no landmark reaches the threshold t, one
\* further attempt at max(20, t - 10) is made if t > 20 and no further attempt
\* if t <= 20; a second attempt is made in no other case, and only after the
\* first returned none; the landmark finally selected is the closest with score
\* >= max(20, t - 10) if any exists, otherwise there is no candidate.
C6_OneRetryAboveFloor ==
    ScoringSucceeded =>
        /\ Len(selectCalls) \in {1, 2}
        /\ selectCalls[1].threshold = significanceThreshold
        /\ Len(selectCalls) = 2 <=>
               (NoneQualifies(significanceThreshold) /\ significanceThreshold > 20)
        /\ Len(selectCalls) = 2 =>
               /\ selectCalls[1].returned = Null
               /\ selectCalls[2].threshold = Relaxed(significanceThreshold)
        /\ NoneQualifies(significanceThreshold) => RelaxedOutcome(significanceThreshold)

\* scores {A: 25}, threshold 30: the first pass is empty, the retry at 20 gives A
C6_Witness ==
    /\ ScoringSucceeded
    /\ significanceThreshold = 30
    /\ Len(selectCalls) = 2
    /\ selectCalls[1].returned = Null
    /\ selectCalls[2].threshold = 20
    /\ bestLandmark # Null
    /\ ScoreConsulted(bestLandmark) = 25

SearchReturned == pc \notin {"fetchLandmarks", "thrown"}

\* C7: selectBestLandmark returns a member of its input for every non-empty
\* list and none only for the empty list; without a scorer (or when the scorer
\* raised) findBestNearbyLandmark selects a member of the search result.
C7_HeuristicNeverEmpty ==
    LET selected == SelectBestLandmark(landmarks)
    IN  /\ SearchReturned =>
               /\ selected = Null <=> landmarks = <<>>
               /\ landmarks # <<>> => selected \in Range(landmarks)
        /\ usedHeuristic => bestLandmark \in Range(landmarks)

\* a single monument, rating 9.0, 50 m away, and no scorer
C7_Witness ==
    /\ ~hasScoreSignificance
    /\ usedHeuristic
    /\ landmarks = <<Obelisk>>
    /\ Obelisk.rating = 90 /\ Obelisk.category = "Monument" /\ Obelisk.distance = 50
    /\ bestLandmark = Obelisk

SearchEmptyStages == <<"SEARCHING", "AREA_FALLBACK", "DONE">>
NoCandidateStages == <<"SEARCHING", "SCORING", "SELECTING", "AREA_FALLBACK", "DONE">>
NarratedStages ==
    <<"SEARCHING", "SCORING", "SELECTING", "AGGREGATING", "SYNTHESIZING", "DONE">>

Finished == pc \in {"returned", "thrown"}

IsPrefix(s, t) == Len(s) <= Len(t) /\ s = SubSeq(t, 1, Len(s))

Before(a, b, s) ==
    \A j \in DOMAIN s : s[j] = b => \E i \in 1..(j - 1) : s[i] = a

\* scoring is never invoked on an empty search result, and a landmark
\* narrative is requested only after the selection has chosen a landmark
StageOrder ==
    /\ "SCORING" \in Range(stages) => landmarks # <<>>
    /\ "AGGREGATING" \in Range(stages) =>
           /\ bestLandmark # Null
           /\ Before("SELECTING", "AGGREGATING", stages)

\* C10 as stated: every run follows one of exactly three stage sequences.
C10_ThreeSequences ==
    /\ Finished => stages \in {SearchEmptyStages, NoCandidateStages, NarratedStages}
    /\ StageOrder

\* the stages of a sequence whose function is supplied
Supplied(seq) ==
    LET Kept(stage) ==
            /\ stage = "SCORING" => hasScoreSignificance
            /\ stage = "AREA_FALLBACK" => hasFetchAreaNarrative
            /\ stage \in {"AGGREGATING", "SYNTHESIZING"} => hasGenerateNarrative
    IN  SelectSeq(seq, Kept)

\* C10 amended: a run whose search call raises ends after SEARCHING by raising
\* that error again; every other run follows the sequence of its outcome
\* (search returned nothing, no candidate, landmark chosen) with the stages of
\* the functions that were not supplied left out; scoring is never invoked on
\* an empty search result and a landmark narrative is requested only after the
\* selection has chosen a landmark.
C10_StageSequences ==
    /\ pc = "thrown" => stages = <<"SEARCHING">>
    /\ pc = "returned" =>
           stages = Supplied(IF landmarks = <<>> THEN SearchEmptyStages
                             ELSE IF bestLandmark = Null THEN NoCandidateStages
                             ELSE NarratedStages)
    /\ \E seq \in {SearchEmptyStages, NoCandidateStages, NarratedStages} :
           IsPrefix(stages, Supplied(seq))
    /\ StageOrder

\* a run with every function supplied that narrates a chosen landmark
C10_Witness ==
    /\ pc = "returned"
    /\ hasScoreSignificance /\ hasFetchAreaNarrative /\ hasGenerateNarrative
    /\ bestLandmark # Null
    /\ stages = NarratedStages

(***************************************************************************)
(* The landmark narrative request (app/api/narrative)                      *)
(*                                                                         *)
(* The three source channels run in parallel; each settles in its own      *)
(* action, in any order, and the handler goes on once all three have       *)
(* resolved (Promise.all).  A provider call fails by the timer aborting    *)
(* it, by a network error, by a response that is not ok or by a body that  *)
(* does not parse.                                                         *)
(***************************************************************************)
FailureKinds == {"timeout", "throw", "notOk", "malformed"}

Failure(call, kind) == [call |-> call, kind |-> kind]

\* what the providers can send: titles, page URLs and labels, some of which
\* contain the character "|"
SearchTitles == {"", "Tower", "Tower|Old"}
PageUrls == {Undefined, "wiki/Tower", "Old|wiki/Tower"}
Extracts == {Undefined, "An extract."}
PageTypes == {"standard", "disambiguation"}
EntityLabels == {Undefined, "Tower", "Big|Tower"}
EntityIds == {Undefined, "Q1"}

\* the lists of at most MaxSearchHits titles a search can return
SearchResults == UNION {[1..k -> SearchTitles] : k \in 0..MaxSearchHits}

\* a page summary that came back ok
Summaries == [pageUrl : PageUrls, extract : Extracts, type : PageTypes]

\* how the summary call of one title settles: a failure or a summary
SummaryOutcomes ==
    [ok : {FALSE}, kind : FailureKinds] \cup [ok : {TRUE}, json : Summaries]

Source(title, url, excerpt) == [title |-> title, url |-> url, excerpt |-> excerpt]

\* results.slice(0, n)
Slice(list, n) == SubSeq(list, 1, Min(Len(list), n))

\* Array.prototype.filter for the summaries that are not null
RECURSIVE NotNull(_)
NotNull(list) ==
    IF Len(list) = 0 THEN <<>>
    ELSE IF list[1] = Null THEN NotNull(Tail(list))
    ELSE <<list[1]>> \o NotNull(Tail(list))

RECURSIVE Dedupe(_, _)
Dedupe(list, seen) ==
    IF Len(list) = 0 THEN <<>>
    ELSE LET key == list[1].title \o "|" \o list[1].url
         IN  IF key \in seen THEN Dedupe(Tail(list), seen)
             ELSE <<list[1]>> \o Dedupe(Tail(list), seen \cup {key})

DedupeSources(list) == Dedupe(list, {})

\* sources.map(({ title, url }) => ({ title, url }))
TitleAndUrl(list) == [i \in DOMAIN list |-> [title |-> list[i].title, url |-> list[i].url]]

\* the summary callback of fetchWikipediaContext for one title: a source or null
SummarySource(title, outcome) ==
    IF ~Truthy(title) THEN Null
    ELSE IF ~outcome.ok THEN Null
    ELSE IF outcome.json.type = "disambiguation" /\ ~Truthy(outcome.json.extract) THEN Null
    ELSE IF ~Truthy(outcome.json.pageUrl) THEN Null
    ELSE Source(title, outcome.json.pageUrl,
                IF Truthy(outcome.json.extract) THEN outcome.json.extract ELSE Undefined)

OsmUrl(landmark, json) ==
    IF Truthy(json.osm_type) /\ Truthy(json.osm_id)
    THEN "https://www.openstreetmap.org/" \o json.osm_type \o "/" \o json.osm_id
    ELSE "https://www.openstreetmap.org/#map=19/" \o NatToString(landmark.location.lat)
             \o "/" \o NatToString(landmark.location.lng)

\* the reverse-geocoding bodies: with and without the object's type and id
OsmBodies == {[osm_type |-> "way", osm_id |-> "1"],
              [osm_type |-> Undefined, osm_id |-> Undefined]}

\* generateWithOpenAI after the fetch came back ok: the text, or no text (it throws)
MessageContents == {Undefined, "", "   ", " A vivid story. "}

HasContent(content) == Truthy(content)

\* a fallback response that reports the template as generated text
LandmarkFallbackResponseUsedLLM(landmark, list) ==
    [status |-> 200, narrative |-> GenerateLandmarkNarrative(landmark),
     sources |-> TitleAndUrl(list), usedLLM |-> TRUE]

\* the fallback response of the landmark request
LandmarkFallbackResponse(landmark, list) ==
    [status |-> 200, narrative |-> GenerateLandmarkNarrative(landmark),
     sources |-> TitleAndUrl(list), usedLLM |-> FALSE]

\* the response of the landmark request when the generative call returned
LandmarkLlmResponse(content, list) ==
    [status |-> 200, narrative |-> Trim(content),
     sources |-> TitleAndUrl(list), usedLLM |-> TRUE]

InitLandmarkRequest ==
    /\ reqKind = "landmark"
    /\ reqPc = "gather"
    /\ reqLandmark \in {Obelisk, Hangar}
    /\ apiKey \in BOOLEAN
    /\ chanState = [c \in Channels |-> "search"]
    /\ chanDocs = [c \in Channels |-> <<>>]
    /\ titles = <<>>
    /\ areaInfo = Null
    /\ sources = <<>>
    /\ failures = {}
    /\ llmContent = Undefined
    /\ response = Null

gathering == <<reqKind, reqLandmark, apiKey, areaInfo, sources, llmContent, response>>

\* a channel's function returns []: the catch block, or an early return
ChannelResolves(c, docs) ==
    /\ chanState' = [chanState EXCEPT ![c] = "resolved"]
    /\ chanDocs' = [chanDocs EXCEPT ![c] = docs]

WikipediaSearchFails(kind) ==
    /\ reqKind = "landmark" /\ reqPc = "gather" /\ chanState["wikipedia"] = "search"
    /\ ChannelResolves("wikipedia", <<>>)
    /\ failures' = failures \cup {Failure("wikipedia", kind)}
    /\ UNCHANGED <<notRequest, gathering, reqPc, titles>>

WikipediaSearchReturns(results) ==
    /\ reqKind = "landmark" /\ reqPc = "gather" /\ chanState["wikipedia"] = "search"
    /\ IF Len(results) = 0
       THEN /\ ChannelResolves("wikipedia", <<>>)
            /\ UNCHANGED titles
       ELSE /\ chanState' = [chanState EXCEPT !["wikipedia"] = "summaries"]
            /\ titles' = Slice(results, 2)
            /\ UNCHANGED chanDocs
    /\ UNCHANGED <<notRequest, gathering, reqPc, failures>>

\* Promise.all(summaryPromises): each summary call settles on its own
WikipediaSummariesSettle(outcomes) ==
    /\ reqKind = "landmark" /\ reqPc = "gather" /\ chanState["wikipedia"] = "summaries"
    /\ ChannelResolves("wikipedia",
           NotNull([i \in DOMAIN titles |-> SummarySource(titles[i], outcomes[i])]))
    /\ titles' = <<>>
    /\ UNCHANGED <<notRequest, gathering, reqPc, failures>>

OpenStreetMapFails(kind) ==
    /\ reqKind = "landmark" /\ reqPc = "gather" /\ chanState["osm"] = "search"
    /\ ChannelResolves("osm", <<>>)
    /\ failures' = failures \cup {Failure("osm", kind)}
    /\ UNCHANGED <<notRequest, gathering, reqPc, titles>>

OpenStreetMapReturns(json) ==
    /\ reqKind = "landmark" /\ reqPc = "gather" /\ chanState["osm"] = "search"
    /\ ChannelResolves("osm",
           <<Source("OpenStreetMap (Nominatim)", OsmUrl(reqLandmark, json),
                    "{display_name, category, type, address, extratags}")>>)
    /\ UNCHANGED <<notRequest, gathering, reqPc, titles, failures>>

WikidataFails(kind) ==
    /\ reqKind = "landmark" /\ reqPc = "gather" /\ chanState["wikidata"] = "search"
    /\ ChannelResolves("wikidata", <<>>)
    /\ failures' = failures \cup {Failure("wikidata", kind)}
    /\ UNCHANGED <<notRequest, gathering, reqPc, titles>>

\* hit is the first search result, or Null when the search found nothing
WikidataReturns(hit) ==
    /\ reqKind = "landmark" /\ reqPc = "gather" /\ chanState["wikidata"] = "search"
    /\ ChannelResolves("wikidata",
           IF hit = Null \/ ~Truthy(hit.id) THEN <<>>
           ELSE <<Source("Wikidata: " \o (IF Truthy(hit.label) THEN hit.label ELSE hit.id),
                         "https://www.wikidata.org/wiki/" \o hit.id,
                         "{label, description}")>>)
    /\ UNCHANGED <<notRequest, gathering, reqPc, titles, failures>>

\* Promise.all resolved: dedupe, then generateWithOpenAI up to its fetch
GatherCompletes ==
    /\ reqKind = "landmark" /\ reqPc = "gather"
    /\ \A c \in Channels : chanState[c] = "resolved"
    /\ LET all == DedupeSources(chanDocs["wikipedia"] \o chanDocs["osm"]
                                    \o chanDocs["wikidata"])
       IN  /\ sources' = all
           /\ IF apiKey
              THEN /\ reqPc' = "llm"
                   /\ UNCHANGED <<response, failures>>
              ELSE /\ reqPc' = "done"
                   /\ failures' = failures \cup {Failure("llm", "noKey")}
                   /\ response' = LandmarkFallbackResponse(reqLandmark, all)
    /\ UNCHANGED <<notRequest, reqKind, reqLandmark, apiKey, chanState, chanDocs,
                   titles, areaInfo, llmContent>>

\* the generative call is aborted, fails, or answers with a status that is not ok
LandmarkLlmFails(kind) ==
    /\ reqKind = "landmark" /\ reqPc = "llm"
    /\ reqPc' = "done"
    /\ failures' = failures \cup {Failure("llm", kind)}
    /\ response' = LandmarkFallbackResponse(reqLandmark, sources)
    /\ UNCHANGED <<notRequest, reqKind, reqLandmark, apiKey, chanState, chanDocs,
                   titles, areaInfo, sources, llmContent>>

\* the generative call answers ok with choices[0].message.content = content
LandmarkLlmReturns(content) ==
    /\ reqKind = "landmark" /\ reqPc = "llm"
    /\ reqPc' = "done"
    /\ llmContent' = content
    /\ IF HasContent(content)
       THEN /\ response' = LandmarkLlmResponse(content, sources)
            /\ UNCHANGED failures
       ELSE /\ response' = LandmarkFallbackResponse(reqLandmark, sources)
            /\ failures' = failures \cup {Failure("llm", "noContent")}
    /\ UNCHANGED <<notRequest, reqKind, reqLandmark, apiKey, chanState, chanDocs,
                   titles, areaInfo, sources>>

LandmarkRequestNext ==
    \/ \E kind \in FailureKinds : WikipediaSearchFails(kind)
    \/ \E results \in SearchResults : WikipediaSearchReturns(results)
    \/ \E outcomes \in [DOMAIN titles -> SummaryOutcomes] : WikipediaSummariesSettle(outcomes)
    \/ \E kind \in FailureKinds : OpenStreetMapFails(kind)
    \/ \E json \in OsmBodies : OpenStreetMapReturns(json)
    \/ \E kind \in FailureKinds : WikidataFails(kind)
    \/ \E hit \in {Null} \cup [id : EntityIds, label : EntityLabels] : WikidataReturns(hit)
    \/ GatherCompletes
    \/ \E kind \in {"timeout", "throw", "notOk", "malformed"} : LandmarkLlmFails(kind)
    \/ \E content \in MessageContents : LandmarkLlmReturns(content)

(***************************************************************************)
(* The area narrative request (app/api/area, kept in places/route.ts)      *)
(*                                                                         *)
(* The calls are awaited one after the other and none sits in a try block  *)
(* of its own: a call that throws ends the request in the handler's catch  *)
(* with status 500.  No call carries a timer.                              *)
(***************************************************************************)
AreaFailureKinds == {"throw", "notOk", "malformed"}

NoAddress ==
    [neighbourhood |-> Undefined, suburb |-> Undefined, district |-> Undefined,
     city_district |-> Undefined, city |-> Undefined, town |-> Undefined,
     village |-> Undefined, county |-> Undefined]

\* the reverse-geocoding bodies of the area request
AreaBodies ==
    {[address |-> [NoAddress EXCEPT !.neighbourhood = "Soho", !.city = "London"],
      display_name |-> "Soho, London"],
     [address |-> [NoAddress EXCEPT !.town = "Bath"], display_name |-> "Bath, Somerset"],
     [address |-> NoAddress, display_name |-> "Camden, London"],
     [address |-> NoAddress, display_name |-> Undefined]}

\* the first of the strings that is truthy, or the last one
RECURSIVE FirstTruthy(_)
FirstTruthy(strs) ==
    IF Len(strs) = 1 \/ Truthy(strs[1]) THEN strs[1] ELSE FirstTruthy(Tail(strs))

\* displayName?.split(',')[0]
RECURSIVE BeforeComma(_)
BeforeComma(str) ==
    IF str = Undefined \/ str = "" THEN str
    ELSE IF SubSeq(str, 1, 1) = "," THEN ""
    ELSE SubSeq(str, 1, 1) \o BeforeComma(SubSeq(str, 2, Len(str)))

\* what fetchAreaInfo returns for a body
AreaInfoOf(json) ==
    LET areaName == FirstTruthy(<<json.address.neighbourhood, json.address.suburb,
                                  json.address.district, json.address.city_district,
                                  json.address.city, json.address.town,
                                  json.address.village, json.address.county,
                                  BeforeComma(json.display_name), "this area">>)
    IN  [areaName |-> areaName, address |-> json.address,
         displayName |-> FirstTruthy(<<json.display_name, areaName>>)]

GenerateFallbackAreaNarrative(areaName, address) ==
    LET city == FirstTruthy(<<address.city, address.town, "">>)
        locationText == IF Truthy(city) THEN areaName \o ", " \o city ELSE areaName
    IN  "There is no specific landmark around you, however you are in " \o locationText
            \o ". This area has its own unique character and history. Take a moment to"
            \o " observe your surroundings and appreciate the local atmosphere."

\* the loop body of fetchWikipediaAreaContext for a summary that came back ok:
\* the sources with the title's source pushed, or as they were
AreaSourcesWith(list, title, json) ==
    IF json.type = "disambiguation" /\ ~Truthy(json.extract) THEN list
    ELSE IF ~Truthy(json.pageUrl) THEN list
    ELSE Append(list, Source(title, json.pageUrl, json.extract))

\* wikiSources as the response lists them
AreaResponseSources(list) == TitleAndUrl(list)

AreaFallbackResponse(info, list) ==
    [status |-> 200, narrative |-> GenerateFallbackAreaNarrative(info.areaName, info.address),
     sources |-> AreaResponseSources(list), usedLLM |-> FALSE, areaName |-> info.areaName]

AreaLlmResponse(content, info, list) ==
    [status |-> 200, narrative |-> Trim(content),
     sources |-> AreaResponseSources(list), usedLLM |-> TRUE, areaName |-> info.areaName]

\* the handler's catch block
ErrorResponse == [status |-> 500]

InitAreaRequest ==
    /\ reqKind = "area"
    /\ reqPc = "fetchAreaInfo"
    /\ reqLandmark = Null
    /\ apiKey \in BOOLEAN
    /\ chanState = [c \in Channels |-> "idle"]
    /\ chanDocs = [c \in Channels |-> <<>>]
    /\ titles = <<>>
    /\ areaInfo = Null
    /\ sources = <<>>
    /\ failures = {}
    /\ llmContent = Undefined
    /\ response = Null

areaFixed == <<reqKind, reqLandmark, apiKey, chanState, chanDocs>>

\* an exception reaches the handler's catch
AreaRequestThrows(call, kind) ==
    /\ reqPc' = "done"
    /\ failures' = failures \cup {Failure(call, kind)}
    /\ response' = ErrorResponse
    /\ UNCHANGED <<notRequest, areaFixed, titles, areaInfo, sources, llmContent>>

\* the sources are complete: generateAreaNarrativeWithOpenAI up to its fetch
AreaSourcesComplete(list, failed) ==
    /\ sources' = list
    /\ titles' = <<>>
    /\ IF apiKey
       THEN /\ reqPc' = "llm"
            /\ failures' = failures \cup failed
            /\ UNCHANGED response
       ELSE /\ reqPc' = "done"
            /\ failures' = failures \cup failed \cup {Failure("llm", "noKey")}
            /\ response' = AreaFallbackResponse(areaInfo, list)

\* fetchAreaInfo throws on a response that is not ok, as on the other failures
AreaInfoFails(kind) ==
    /\ reqKind = "area" /\ reqPc = "fetchAreaInfo"
    /\ AreaRequestThrows("areaInfo", kind)

AreaInfoReturns(json) ==
    /\ reqKind = "area" /\ reqPc = "fetchAreaInfo"
    /\ areaInfo' = AreaInfoOf(json)
    /\ reqPc' = "search"
    /\ UNCHANGED <<notRequest, areaFixed, titles, sources, failures, llmContent, response>>

\* the search call throws, or its body does not parse
AreaSearchThrows(kind) ==
    /\ reqKind = "area" /\ reqPc = "search"
    /\ kind # "notOk"
    /\ AreaRequestThrows("wikipedia", kind)

\* if (!searchRes.ok) return []
AreaSearchNotOk ==
    /\ reqKind = "area" /\ reqPc = "search"
    /\ AreaSourcesComplete(<<>>, {Failure("wikipedia", "notOk")})
    /\ UNCHANGED <<notRequest, areaFixed, areaInfo, llmContent>>

AreaSearchReturns(results) ==
    /\ reqKind = "area" /\ reqPc = "search"
    /\ LET hits == SelectSeq(Slice(results, 3), Truthy)
       IN  IF Len(hits) = 0
           THEN /\ AreaSourcesComplete(<<>>, {})
                /\ UNCHANGED <<notRequest, areaFixed, areaInfo, llmContent>>
           ELSE /\ titles' = hits
                /\ reqPc' = "summary"
                /\ UNCHANGED <<notRequest, areaFixed, areaInfo, sources, failures,
                               llmContent, response>>

\* the loop goes on to the next title, or fetchWikipediaAreaContext returns
AreaNextTitle(list, failed) ==
    IF Len(titles) = 1
    THEN AreaSourcesComplete(list, failed)
    ELSE /\ titles' = Tail(titles)
         /\ sources' = list
         /\ failures' = failures \cup failed
         /\ UNCHANGED <<reqPc, response>>

\* the summary call of the first remaining title throws, or its body does not parse
AreaSummaryThrows(kind) ==
    /\ reqKind = "area" /\ reqPc = "summary"
    /\ kind # "notOk"
    /\ AreaRequestThrows("summary", kind)

\* if (!summaryRes.ok) continue
AreaSummaryNotOk ==
    /\ reqKind = "area" /\ reqPc = "summary"
    /\ AreaNextTitle(sources, {Failure("summary", "notOk")})
    /\ UNCHANGED <<notRequest, areaFixed, areaInfo, llmContent>>

AreaSummaryReturns(json) ==
    /\ reqKind = "area" /\ reqPc = "summary"
    /\ AreaNextTitle(AreaSourcesWith(sources, titles[1], json), {})
    /\ UNCHANGED <<notRequest, areaFixed, areaInfo, llmContent>>

AreaLlmFails(kind) ==
    /\ reqKind = "area" /\ reqPc = "llm"
    /\ reqPc' = "done"
    /\ failures' = failures \cup {Failure("llm", kind)}
    /\ response' = AreaFallbackResponse(areaInfo, sources)
    /\ UNCHANGED <<notRequest, areaFixed, titles, areaInfo, sources, llmContent>>

AreaLlmReturns(content) ==
    /\ reqKind = "area" /\ reqPc = "llm"
    /\ reqPc' = "done"
    /\ llmContent' = content
    /\ IF HasContent(content)
       THEN /\ response' = AreaLlmResponse(content, areaInfo, sources)
            /\ UNCHANGED failures
       ELSE /\ response' = AreaFallbackResponse(areaInfo, sources)
            /\ failures' = failures \cup {Failure("llm", "noContent")}
    /\ UNCHANGED <<notRequest, areaFixed, titles, areaInfo, sources>>

AreaRequestNext ==
    \/ \E kind \in AreaFailureKinds : AreaInfoFails(kind)
    \/ \E json \in AreaBodies : AreaInfoReturns(json)
    \/ \E kind \in AreaFailureKinds : AreaSearchThrows(kind)
    \/ AreaSearchNotOk
    \/ \E results \in SearchResults : AreaSearchReturns(results)
    \/ \E kind \in AreaFailureKinds : AreaSummaryThrows(kind)
    \/ AreaSummaryNotOk
    \/ \E json \in Summaries : AreaSummaryReturns(json)
    \/ \E kind \in AreaFailureKinds : AreaLlmFails(kind)
    \/ \E content \in MessageContents : AreaLlmReturns(content)

(***************************************************************************)
(* A narrative request of either kind                                      *)
(***************************************************************************)
InitNarrative == PipelineIdle /\ ScoringIdle /\ (InitLandmarkRequest \/ InitAreaRequest)

NextNarrative == LandmarkRequestNext \/ AreaRequestNext

SpecNarrative == InitNarrative /\ [][NextNarrative]_vars

\* the template narrative of the request's subject
TemplateNarrative ==
    IF reqKind = "landmark" THEN GenerateLandmarkNarrative(reqLandmark)
    ELSE GenerateFallbackAreaNarrative(areaInfo.areaName, areaInfo.address)

Responded == reqKind \in {"landmark", "area"} /\ reqPc = "done"

Succeeded == Responded /\ response.status = 200

\* the source channels of the request with a failed call
FailedChannels == {c \in Channels : \E f \in failures : f.call = c}

\* the (title, URL) pairs of the documents a channel produced
ChannelPairs(c) == Range(TitleAndUrl(chanDocs[c]))

\* C2: in the landmark narrative request, when exactly one of the three
\* source channels fails (timeout, response not ok, thrown error, malformed
\* body), the request succeeds and its source list contains every document
\* the other two channels produced.
C2_ChannelIsolation ==
    (Responded /\ reqKind = "landmark" /\ Cardinality(FailedChannels) = 1)
        => /\ response.status = 200
           /\ \A c \in Channels \ FailedChannels :
                  ChannelPairs(c) \subseteq Range(response.sources)

\* C3: source gathering never fails, for a landmark and for an area: whatever
\* failures the source-fetching calls meet, the request goes on to the
\* narrative step and answers with a narrative.
C3_GatheringNeverFails ==
    (Responded /\ \A f \in failures : f.call # "areaInfo")
        => response.status = 200

\* C4: the source list of every narrative response, landmark or area, holds
\* no two entries with the same (title, URL) pair.
C4_NoDuplicateSources ==
    Succeeded
        => \A i, j \in DOMAIN response.sources :
               response.sources[i] = response.sources[j] => i = j

\* the generative step of the request failed (tier 1)
TierOneFailed == \E f \in failures : f.call = "llm"

\* C8: in the landmark and area narrative requests, every tier-1 failure (no
\* credential, response not ok, missing or empty content, timeout, thrown or
\* malformed reply) gives the template narrative with usedLLM = false, and
\* usedLLM = true only goes with the text the generative service produced.
C8_TierOneFallback ==
    Succeeded
        => /\ TierOneFailed
                => /\ response.usedLLM = FALSE
                   /\ response.narrative = TemplateNarrative
           /\ response.usedLLM
                => /\ HasContent(llmContent)
                   /\ response.narrative = Trim(llmContent)

\* a landmark request whose generative call was aborted by the timer, and an
\* answer that took the template
C8_Witness ==
    /\ Succeeded /\ reqKind = "landmark"
    /\ Failure("llm", "timeout") \in failures
    /\ response.usedLLM = FALSE
    /\ response.narrative = GenerateLandmarkNarrative(reqLandmark)

\* C9: every successful narrative response, landmark or area, carries a
\* narrative that is not empty, whatever the generative service did.
C9_NarrativeNotEmpty ==
    Succeeded => response.narrative # ""

(***************************************************************************)
(* scoreLandmarkSignificance (app/api/significance, kept in                *)
(* narrative/route.ts)                                                     *)
(*                                                                         *)
(* The three signals are checked in parallel; each check settles in its    *)
(* own actions and catches what its calls throw.  No call carries a timer. *)
(***************************************************************************)
maxScore == 100

\* the number of the keywords that occur in the text
KeywordMatches(text, keywords) == Cardinality({kw \in keywords : Includes(text, kw)})

WikipediaKeywords ==
    {"famous", "historic", "landmark", "heritage", "unesco", "monument", "tourist",
     "attraction", "significant", "important"}

WikidataKeywords ==
    {"heritage", "monument", "landmark", "historic", "unesco", "tourist", "attraction"}

ScoringKeywords ==
    {"monument", "historic", "landmark", "museum", "memorial", "cathedral", "church",
     "temple", "palace", "castle", "tower", "bridge"}

TourismValues == {"attraction", "museum", "monument", "artwork", "viewpoint"}

\* the snippets and descriptions the providers can send
Snippets ==
    {Undefined, "", "Tower (Disambiguation)", "A historic tower.",
     "A famous and important historic landmark, a UNESCO heritage monument and a significant tourist attraction."}

\* the first hit of the Wikipedia search, or Null when the search found nothing
WikipediaHits == {Null} \cup [snippet : Snippets]

\* the first hit of the Wikidata search, or Null
WikidataHits == {Null} \cup [id : {"Q1"}, description : Snippets]

\* the extratags of the reverse-geocoding body, or Null when it has none
ExtraTags ==
    {Null} \cup [tourism : {Undefined, "attraction", "Attraction", "information", "hotel"},
                 historic : {Undefined, "yes"}, heritage : {Undefined, "2"},
                 heritage_operator : {Undefined, "whc"}, wikipedia : {Undefined, "en:Tower"}]

\* how the heritage query settles
HeritageOutcomes == {"throw", "notOk", "malformed", "noBinding", "heritage"}

\* checkWikipediaSignificance once the search came back ok with a body that parses;
\* a hit without snippet makes result.snippet.toLowerCase() throw, and the catch returns 0
WikipediaPoints(hit) ==
    IF hit = Null THEN 0
    ELSE IF hit.snippet = Undefined THEN 0
    ELSE LET snippetLower == ToLowerCase(hit.snippet)
             base == IF Includes(snippetLower, "disambiguation") THEN 5 ELSE 20
         IN  Min(base + Min(KeywordMatches(snippetLower, WikipediaKeywords) * 2, 20), 40)

\* checkWikidataSignificance up to the heritage query
WikidataDescriptionPoints(hit) ==
    IF Truthy(hit.description)
    THEN 10 + Min(KeywordMatches(ToLowerCase(hit.description), WikidataKeywords) * 3, 20)
    ELSE 10

\* a heritage query whose failure costs the points gathered so far
WikidataPointsLostOnFailure(score, outcome) ==
    IF outcome \in {"throw", "notOk", "malformed"} THEN 0
    ELSE Min(IF outcome = "heritage" THEN score + 10 ELSE score, 30)

\* checkWikidataSignificance after the heritage query
WikidataPoints(score, outcome) ==
    Min(IF outcome = "heritage" THEN score + 10 ELSE score, 30)

\* a geodata signal without the cap
OpenStreetMapPointsUncapped(tags) ==
    IF tags = Null THEN 0
    ELSE (IF ~Truthy(tags.tourism) THEN 0
          ELSE IF ToLowerCase(tags.tourism) \in TourismValues THEN 10
          ELSE IF ToLowerCase(tags.tourism) = "information" THEN 3
          ELSE 0)
         + (IF Truthy(tags.historic) THEN 8 ELSE 0)
         + (IF Truthy(tags.heritage) \/ Truthy(tags.heritage_operator) THEN 5 ELSE 0)
         + (IF Truthy(tags.wikipedia) THEN 2 ELSE 0)

\* checkOpenStreetMapSignificance once the call came back ok with a body that parses
OpenStreetMapPoints(tags) ==
    IF tags = Null THEN 0
    ELSE LET tourism == IF ~Truthy(tags.tourism) THEN 0
                        ELSE IF ToLowerCase(tags.tourism) \in TourismValues THEN 10
                        ELSE IF ToLowerCase(tags.tourism) = "information" THEN 3
                        ELSE 0
             historic == IF Truthy(tags.historic) THEN 8 ELSE 0
             heritage == IF Truthy(tags.heritage) \/ Truthy(tags.heritage_operator)
                         THEN 5 ELSE 0
             wikipedia == IF Truthy(tags.wikipedia) THEN 2 ELSE 0
         IN  Min(tourism + historic + heritage + wikipedia, 20)

\* the bonus of the rating (in tenths) and of the category
\* a rating bonus that starts above 7.0 and above 8.0
RatingBonusAbove(landmark) ==
    IF landmark.rating > 80 THEN 10 ELSE IF landmark.rating > 70 THEN 5 ELSE 0

RatingBonus(landmark) ==
    IF landmark.rating >= 80 THEN 10 ELSE IF landmark.rating >= 70 THEN 5 ELSE 0

CategoryBonus(landmark) ==
    LET categoryLower == ToLowerCase(landmark.category)
    IN  IF \E kw \in ScoringKeywords : Includes(categoryLower, kw) THEN 10 ELSE 0

\* the sum without the final clamp
ScoreUnclamped(landmark, wikipediaScore, wikidataScore, osmScore) ==
    wikipediaScore + wikidataScore + osmScore + RatingBonus(landmark) + CategoryBonus(landmark)

\* a score that is returned without the final clamp
ScoreLandmarkSignificanceNoClamp(landmark, wikipediaScore, wikidataScore, osmScore) ==
    ScoreUnclamped(landmark, wikipediaScore, wikidataScore, osmScore)

\* what scoreLandmarkSignificance returns once the three checks have resolved
ScoreLandmarkSignificance(landmark, wikipediaScore, wikidataScore, osmScore) ==
    Min(ScoreUnclamped(landmark, wikipediaScore, wikidataScore, osmScore), maxScore)

InitScore ==
    /\ PipelineIdle
    /\ reqKind = "score"
    /\ reqPc = "scoring"
    /\ reqLandmark \in {Obelisk, Cafe, CityMuseum, Footbridge}
    /\ apiKey = FALSE
    /\ chanState = [c \in Channels |-> "search"]
    /\ chanDocs = [c \in Channels |-> <<>>]
    /\ titles = <<>>
    /\ areaInfo = Null
    /\ sources = <<>>
    /\ failures = {}
    /\ llmContent = Undefined
    /\ response = Null
    /\ ScoringIdle

scoringFixed == <<pipelineVars, validationVars, cacheVars, templateVars, speechVars, reqKind, reqLandmark,
                  apiKey, chanDocs, titles, areaInfo, sources, llmContent, extratags>>

\* a check returns its points
CheckResolves(c, points) ==
    /\ chanState' = [chanState EXCEPT ![c] = "resolved"]
    /\ chanScore' = [chanScore EXCEPT ![c] = points]

\* a failed call that takes the points of every signal away
CheckFailsClearingAll(c, kind) ==
    /\ reqKind = "score" /\ reqPc = "scoring" /\ chanState[c] = "search"
    /\ chanState' = [chanState EXCEPT ![c] = "resolved"]
    /\ chanScore' = [d \in Channels |-> 0]
    /\ failures' = failures \cup {Failure(c, kind)}
    /\ UNCHANGED <<scoringFixed, reqPc, response>>

\* a call of a check throws, answers not ok, or sends a body that does not parse
CheckFails(c, kind) ==
    /\ reqKind = "score" /\ reqPc = "scoring" /\ chanState[c] = "search"
    /\ CheckResolves(c, 0)
    /\ failures' = failures \cup {Failure(c, kind)}
    /\ UNCHANGED <<scoringFixed, reqPc, response>>

CheckWikipediaReturns(hit) ==
    /\ reqKind = "score" /\ reqPc = "scoring" /\ chanState["wikipedia"] = "search"
    /\ CheckResolves("wikipedia", WikipediaPoints(hit))
    /\ failures' = IF hit # Null /\ hit.snippet = Undefined
                   THEN failures \cup {Failure("wikipedia", "throw")} ELSE failures
    /\ UNCHANGED <<scoringFixed, reqPc, response>>

CheckWikidataReturns(hit) ==
    /\ reqKind = "score" /\ reqPc = "scoring" /\ chanState["wikidata"] = "search"
    /\ IF hit = Null
       THEN CheckResolves("wikidata", 0)
       ELSE /\ chanState' = [chanState EXCEPT !["wikidata"] = "heritage"]
            /\ chanScore' = [chanScore EXCEPT !["wikidata"] = WikidataDescriptionPoints(hit)]
    /\ UNCHANGED <<scoringFixed, reqPc, response, failures>>

\* the heritage query settles; its failures are caught by the inner try
CheckWikidataHeritageSettles(outcome) ==
    /\ reqKind = "score" /\ reqPc = "scoring" /\ chanState["wikidata"] = "heritage"
    /\ CheckResolves("wikidata", WikidataPoints(chanScore["wikidata"], outcome))
    /\ failures' = IF outcome \in AreaFailureKinds
                   THEN failures \cup {Failure("heritage", outcome)} ELSE failures
    /\ UNCHANGED <<scoringFixed, reqPc, response>>

\* tags is json?.extratags, or Null when the body has none
CheckOpenStreetMapReturns(tags) ==
    /\ reqKind = "score" /\ reqPc = "scoring" /\ chanState["osm"] = "search"
    /\ CheckResolves("osm", OpenStreetMapPoints(tags))
    /\ extratags' = tags
    /\ UNCHANGED <<pipelineVars, validationVars, cacheVars, templateVars, speechVars, reqKind, reqLandmark,
                   apiKey, chanDocs, titles, areaInfo, sources, llmContent, reqPc, response,
                   failures>>

\* Promise.all resolved: the bonuses, the clamp, and the response of POST
ScoreReturns ==
    /\ reqKind = "score" /\ reqPc = "scoring"
    /\ \A c \in Channels : chanState[c] = "resolved"
    /\ reqPc' = "done"
    /\ response' = [status |-> 200,
                    score |-> ScoreLandmarkSignificance(reqLandmark, chanScore["wikipedia"],
                                  chanScore["wikidata"], chanScore["osm"])]
    /\ UNCHANGED <<scoringFixed, chanState, chanScore, failures>>

NextScore ==
    \/ \E c \in Channels, kind \in AreaFailureKinds : CheckFails(c, kind)
    \/ \E hit \in WikipediaHits : CheckWikipediaReturns(hit)
    \/ \E hit \in WikidataHits : CheckWikidataReturns(hit)
    \/ \E outcome \in HeritageOutcomes : CheckWikidataHeritageSettles(outcome)
    \/ \E tags \in ExtraTags : CheckOpenStreetMapReturns(tags)
    \/ ScoreReturns

SpecScore == InitScore /\ [][NextScore]_vars

Scored == reqKind = "score" /\ reqPc = "done"

\* C1: for every landmark and every combination of outcomes of the three
\* signals (hit, no hit, response not ok, thrown error), the score that
\* scoreLandmarkSignificance returns is an integer from 0 to 100.
C1_ScoreInRange ==
    Scored => response.score \in 0..maxScore

\* a landmark whose terms add up to more than 100 before the clamp, with
\* every signal at its cap
C1_Witness ==
    /\ Scored
    /\ chanScore = [wikipedia |-> 40, osm |-> 20, wikidata |-> 30]
    /\ ScoreUnclamped(reqLandmark, 40, 30, 20) > maxScore
    /\ response.score = maxScore

(***************************************************************************)
(* The tour: findBestNearbyLandmark wired to the client functions          *)
(* (lib/api-client): fetchLandmarks is fetchNearbyLandmarks and            *)
(* fetchAreaNarrative posts to the area route, whose handler runs the      *)
(* actions of the area narrative request.  The scorer stays a parameter.   *)
(***************************************************************************)
\* what the place search answers with
TourSearches == {<<>>, <<Cafe>>, <<Obelisk, Cafe>>}

\* the error body and the message of a failed request, as axios reports them
ErrorBodies == {Undefined, "", "Failed to fetch places: Unknown error"}
AxiosMessages == {"", "Request failed with status code 500"}

\* a message without the last operand of the chain
ClientErrorMessageNoFallback(dataError, message, fallback) ==
    FirstTruthy(<<dataError, message>>)

\* error.response?.data?.error || error.message || fallback
ClientErrorMessage(dataError, message, fallback) ==
    FirstTruthy(<<dataError, message, fallback>>)

InitTour ==
    /\ pc = "fetchLandmarks"
    /\ hasGenerateNarrative = FALSE
    /\ hasScoreSignificance \in BOOLEAN
    /\ hasFetchAreaNarrative \in BOOLEAN
    /\ significanceThreshold = SIGNIFICANCE_THRESHOLD
    /\ landmarks = <<>>
    /\ significanceScores = [id \in {} |-> 0]
    /\ bestLandmark = Null
    /\ result = Null
    /\ stages = <<"SEARCHING">>
    /\ selectCalls = <<>>
    /\ usedHeuristic = FALSE
    /\ thrown = Undefined
    /\ narrativeError = Undefined
    /\ RequestIdle
    /\ ScoringIdle

\* fetchNearbyLandmarks returns response.data.landmarks || []
TourSearchReturns(ls) == FetchLandmarksResolves(ls)

\* fetchNearbyLandmarks throws new Error(errorMessage)
TourSearchFails(dataError, message) ==
    FetchLandmarksRejects(ClientErrorMessage(dataError, message, "Failed to fetch landmarks"))

TourScoringResolves(scoredResults) == ScoreSignificanceResolves(scoredResults)

TourScoringRejects == ScoreSignificanceRejects

\* fetchAreaNarrative posts the coordinates; the handler accepts the body
AreaNarrativeCallStarts(key) ==
    /\ pc = "fetchAreaNarrative" /\ reqKind = "none"
    /\ reqKind' = "area"
    /\ reqPc' = "fetchAreaInfo"
    /\ apiKey' = key
    /\ UNCHANGED <<notRequest, reqLandmark, chanState, chanDocs, titles, areaInfo, sources,
                   failures, llmContent, response>>

\* the request does not reach the handler: axios throws
AreaNarrativeCallFails ==
    /\ pc = "fetchAreaNarrative" /\ reqKind = "none"
    /\ FetchAreaNarrativeRejects

\* the handler answered 200: fetchAreaNarrative returns response.data
AreaNarrativeCallReturns ==
    /\ reqKind = "area" /\ reqPc = "done" /\ response.status = 200
    /\ FetchAreaNarrativeResolves([narrative |-> response.narrative,
                                   areaName |-> response.areaName])

\* the handler answered 500: axios throws, fetchAreaNarrative throws
AreaNarrativeCallThrows ==
    /\ reqKind = "area" /\ reqPc = "done" /\ response.status # 200
    /\ FetchAreaNarrativeRejects

NextTour ==
    \/ \E ls \in TourSearches : TourSearchReturns(ls)
    \/ \E dataError \in ErrorBodies, message \in AxiosMessages :
           TourSearchFails(dataError, message)
    \/ /\ pc = "scoreSignificance"
       /\ \E scoredResults \in ScorerOutcomes(landmarks) : TourScoringResolves(scoredResults)
    \/ TourScoringRejects
    \/ \E key \in BOOLEAN : AreaNarrativeCallStarts(key)
    \/ AreaNarrativeCallFails
    \/ AreaRequestNext
    \/ AreaNarrativeCallReturns
    \/ AreaNarrativeCallThrows

SpecTour == InitTour /\ [][NextTour]_vars

\* the area route answered the call of fetchAreaNarrative
AreaCallAnswered == reqKind = "area" /\ reqPc = "done"

AreaBranchTaken == "AREA_FALLBACK" \in Range(stages)

\* C11: when the place search returns an empty list and an area-narrative
\* function is supplied (and its call succeeds), findBestNearbyLandmark
\* returns a result with no landmark, a non-empty narrative and a non-empty
\* areaName.
C11_EmptySearchAreaResult ==
    (/\ pc = "returned" /\ landmarks = <<>> /\ hasFetchAreaNarrative
     /\ AreaCallAnswered /\ response.status = 200)
        => /\ result # Null
           /\ result.landmark = Null
           /\ result.narrative # ""
           /\ Truthy(result.areaName)

\* C12: when the area-fallback branch is taken (empty search, or no candidate
\* after selection) and the area-narrative call fails, findBestNearbyLandmark
\* returns null, and the error is not raised to the caller.
C12_AreaFailureGivesNull ==
    /\ AreaBranchTaken => pc # "thrown" /\ thrown = Undefined
    /\ (/\ pc = "returned" /\ AreaBranchTaken
        /\ ~(AreaCallAnswered /\ response.status = 200))
           => result = Null

\* scoring found no candidate among the places, and the area route answered 500
C12_Witness ==
    /\ pc = "returned"
    /\ landmarks # <<>> /\ bestLandmark = Null
    /\ stages = NoCandidateStages
    /\ AreaCallAnswered /\ response.status = 500
    /\ result = Null

SearchFailed == thrown # Undefined

NothingCalled ==
    /\ stages = <<"SEARCHING">>
    /\ selectCalls = <<>>
    /\ ~usedHeuristic
    /\ significanceScores = [id \in {} |-> 0]
    /\ reqKind = "none"

SpecScoreLive == SpecScore /\ WF_vars(ScoreReturns)

\* C14: every provider call is time-boxed, so a server operation (here the
\* scoring of one landmark) eventually returns a response even when a
\* provider never answers.
C14_OperationResponds == <>(reqPc = "done")

(***************************************************************************)
(* The route handlers from the arrival of a request to its response: GET   *)
(* of the places route, POST and PUT of the significance route, POST of    *)
(* the narrative route and POST of the area route.  A JSON value of a body *)
(* carries its type; a query parameter is a string or is missing.          *)
(***************************************************************************)
MaxBatch == 2

Number(n) == [type |-> "number", value |-> n]
Text(str) == [type |-> "string", text |-> str]

\* a landmark as the body of a request carries it
JsonLandmark(l) ==
    [name |-> l.name, category |-> l.category, rating |-> l.rating,
     location |-> [lat |-> Number(l.location.lat), lng |-> Number(l.location.lng)]]

WellFormedLandmarks == {JsonLandmark(Obelisk), JsonLandmark(Cafe)}

LandmarkBodies ==
    WellFormedLandmarks \cup
    {[JsonLandmark(Obelisk) EXCEPT !.name = Undefined],
     [JsonLandmark(Obelisk) EXCEPT !.category = Undefined],
     [JsonLandmark(Obelisk) EXCEPT !.location = Null],
     [JsonLandmark(Obelisk) EXCEPT !.location = [lat |-> Text("abc"), lng |-> Number(7)]]}

CoordinateParams == {Undefined, "", "51.5", "abc", "51.5abc"}

CoordinateBodies ==
    {Null, [lat |-> Number(51), lng |-> Number(7)], [lat |-> Text("51"), lng |-> Number(7)]}

BatchBodies == UNION {[1..k -> LandmarkBodies] : k \in 0..MaxBatch}

RequestBodies ==
    {[route |-> "places", lat |-> lat, lng |-> lng] :
         lat \in CoordinateParams, lng \in CoordinateParams}
    \cup {[route |-> r, landmark |-> l] :
              r \in {"score", "narrative"}, l \in LandmarkBodies \cup {Null}}
    \cup {[route |-> "batch", isArray |-> TRUE, landmarks |-> ls] : ls \in BatchBodies}
    \cup {[route |-> "batch", isArray |-> FALSE, landmarks |-> <<>>]}
    \cup {[route |-> "area", coordinates |-> c] : c \in CoordinateBodies}

\* the points the three checks of one landmark return; 0 is what a failed
\* check returns
SignalReplies == [wikipedia : {0, 40}, wikidata : {0, 30}, osm : {0, 20}]

IsDigitChar(c) == c \in {"0", "1", "2", "3", "4", "5", "6", "7", "8", "9"}

\* the number of digits of s from position i on
RECURSIVE DigitRun(_, _)
DigitRun(s, i) ==
    IF i > Len(s) \/ ~IsDigitChar(SubSeq(s, i, i)) THEN 0 ELSE 1 + DigitRun(s, i + 1)

\* parseFloat: the longest prefix that is a decimal number, after leading
\* white space; "NaN" when there is none
ParseFloat(str) ==
    LET t == TrimStart(str)
        sign == IF Len(t) > 0 /\ SubSeq(t, 1, 1) \in {"+", "-"} THEN 1 ELSE 0
        int == DigitRun(t, sign + 1)
        dot == IF sign + int + 1 <= Len(t) /\ SubSeq(t, sign + int + 1, sign + int + 1) = "."
               THEN 1 ELSE 0
        frac == IF dot = 1 THEN DigitRun(t, sign + int + 2) ELSE 0
    IN  IF int + frac = 0 THEN "NaN" ELSE SubSeq(t, 1, sign + int + dot + frac)

\* GET places: !lat || !lng, then isNaN of the parsed values
PlacesAccepts(b) ==
    /\ Truthy(b.lat) /\ Truthy(b.lng)
    /\ ParseFloat(b.lat) # "NaN" /\ ParseFloat(b.lng) # "NaN"

\* POST significance: !landmark || !landmark.name || !landmark.location
ScoreAccepts(b) ==
    /\ b.landmark # Null
    /\ Truthy(b.landmark.name)
    /\ b.landmark.location # Null

\* PUT significance: Array.isArray(landmarks) && landmarks.length > 0
BatchAccepts(b) == b.isArray /\ Len(b.landmarks) > 0

\* POST narrative: the landmark, its name, its category and its location
NarrativeAccepts(b) ==
    /\ b.landmark # Null
    /\ Truthy(b.landmark.name)
    /\ Truthy(b.landmark.category)
    /\ b.landmark.location # Null

\* POST area: coordinates with lat and lng of type number
AreaAccepts(b) ==
    /\ b.coordinates # Null
    /\ b.coordinates.lat.type = "number"
    /\ b.coordinates.lng.type = "number"

Accepts(b) ==
    CASE b.route = "places" -> PlacesAccepts(b)
      [] b.route = "score" -> ScoreAccepts(b)
      [] b.route = "batch" -> BatchAccepts(b)
      [] b.route = "narrative" -> NarrativeAccepts(b)
      [] b.route = "area" -> AreaAccepts(b)

\* the landmarks a request asks to score
SubjectsOf(b) ==
    CASE b.route = "score" -> <<b.landmark>>
      [] b.route = "batch" -> b.landmarks
      [] OTHER -> <<>>

Pending == [state |-> "pending"]

\* pairs that take the scores from the end of the list
BatchResultsReversed(ls, settled) ==
    [i \in 1..Len(ls) |-> [landmark |-> ls[i], score |-> settled[Len(ls) + 1 - i].score]]

\* landmarks.map((landmark, index) => ({ landmark, score: scores[index] }))
BatchResults(ls, settled) ==
    [i \in 1..Len(ls) |-> [landmark |-> ls[i], score |-> settled[i].score]]

InitRoutes ==
    /\ PipelineIdle
    /\ reqKind = "route"
    /\ reqPc = "validate"
    /\ reqLandmark = Null
    /\ apiKey = FALSE
    /\ chanState = [c \in Channels |-> "idle"]
    /\ chanDocs = [c \in Channels |-> <<>>]
    /\ titles = <<>>
    /\ areaInfo = Null
    /\ sources = <<>>
    /\ failures = {}
    /\ llmContent = Undefined
    /\ response = Null
    /\ chanScore = [c \in Channels |-> 0]
    /\ extratags = NotRead
    /\ body \in RequestBodies
    /\ providerCalls = FALSE
    /\ tasks = <<>>
    /\ templateCalls = <<>>
    /\ SpeechIdle
    /\ dataCache = <<>>
    /\ providerNow = Null
    /\ requests = <<>>

routeFixed == <<pipelineVars, scoringVars, cacheVars, templateVars, speechVars, reqKind, reqLandmark, apiKey, chanState, chanDocs,
                titles, areaInfo, sources, failures, llmContent, body>>

\* the validation of the handler fails: status 400
HandlerRejects ==
    /\ reqKind = "route" /\ reqPc = "validate"
    /\ ~Accepts(body)
    /\ reqPc' = "done"
    /\ response' = [status |-> 400]
    /\ UNCHANGED <<routeFixed, providerCalls, tasks>>

\* the validation passes and the handler runs up to its first await: the
\* calls of every landmark to score, or the calls of the route, are issued
HandlerCallsProviders ==
    /\ reqKind = "route" /\ reqPc = "validate"
    /\ Accepts(body)
    /\ reqPc' = "calling"
    /\ providerCalls' = TRUE
    /\ tasks' = [i \in DOMAIN SubjectsOf(body) |-> Pending]
    /\ UNCHANGED <<routeFixed, response>>

\* scoreLandmarkSignificance of the landmark at index i settles: the three
\* checks have returned their points; landmark.category.toLowerCase() throws
\* a TypeError when the landmark has no category, and the geodata check
\* catches the TypeError of a missing location and returns 0
TaskSettles(i, replies) ==
    /\ reqKind = "route" /\ reqPc = "calling"
    /\ i \in DOMAIN tasks /\ tasks[i] = Pending
    /\ LET landmark == SubjectsOf(body)[i]
       IN  /\ landmark.location = Null => replies.osm = 0
           /\ tasks' = [tasks EXCEPT ![i] =
                 IF landmark.category = Undefined
                 THEN [state |-> "raised", replies |-> replies]
                 ELSE [state |-> "scored", replies |-> replies,
                       score |-> ScoreLandmarkSignificance(landmark, replies.wikipedia,
                                     replies.wikidata, replies.osm)]]
    /\ UNCHANGED <<routeFixed, reqPc, response, providerCalls>>

\* Promise.all rejects as soon as one task does: the catch answers 500
ScoringRaises ==
    /\ reqKind = "route" /\ reqPc = "calling"
    /\ \E i \in DOMAIN tasks : tasks[i].state = "raised"
    /\ reqPc' = "done"
    /\ response' = [status |-> 500]
    /\ UNCHANGED <<routeFixed, providerCalls, tasks>>

\* POST significance answers with the score
ScoreResponds ==
    /\ reqKind = "route" /\ reqPc = "calling" /\ body.route = "score"
    /\ tasks[1].state = "scored"
    /\ reqPc' = "done"
    /\ response' = [status |-> 200, score |-> tasks[1].score]
    /\ UNCHANGED <<routeFixed, providerCalls, tasks>>

\* PUT significance answers with the pairs once every task has a score
BatchResponds ==
    /\ reqKind = "route" /\ reqPc = "calling" /\ body.route = "batch"
    /\ \A i \in DOMAIN tasks : tasks[i].state = "scored"
    /\ reqPc' = "done"
    /\ response' = [status |-> 200, results |-> BatchResults(body.landmarks, tasks)]
    /\ UNCHANGED <<routeFixed, providerCalls, tasks>>

\* the other routes answer 200, or 500 from their catch
RouteResponds(status) ==
    /\ reqKind = "route" /\ reqPc = "calling"
    /\ body.route \in {"places", "narrative", "area"}
    /\ reqPc' = "done"
    /\ response' = [status |-> status]
    /\ UNCHANGED <<routeFixed, providerCalls, tasks>>

NextRoutes ==
    \/ HandlerRejects
    \/ HandlerCallsProviders
    \/ \E i \in 1..(MaxBatch + 1), replies \in SignalReplies : TaskSettles(i, replies)
    \/ ScoringRaises
    \/ ScoreResponds
    \/ BatchResponds
    \/ \E status \in {200, 500} : RouteResponds(status)

SpecRoutes == InitRoutes /\ [][NextRoutes]_vars

IsNumericText(str) == Truthy(str) /\ ParseFloat(str) = Trim(str)

MalformedLandmark(l) ==
    \/ l = Null
    \/ l.name = Undefined
    \/ l.category = Undefined
    \/ l.location = Null
    \/ l.location # Null /\ (l.location.lat.type # "number" \/ l.location.lng.type # "number")

Malformed(b) ==
    CASE b.route = "places" -> ~(IsNumericText(b.lat) /\ IsNumericText(b.lng))
      [] b.route \in {"score", "narrative"} -> MalformedLandmark(b.landmark)
      [] b.route = "batch" ->
             ~b.isArray \/ \E i \in DOMAIN b.landmarks : MalformedLandmark(b.landmarks[i])
      [] b.route = "area" ->
             \/ b.coordinates = Null
             \/ b.coordinates # Null /\ (b.coordinates.lat.type # "number"
                                         \/ b.coordinates.lng.type # "number")

Answered == reqKind = "route" /\ reqPc = "done"

\* C15: a request with a malformed subject (a landmark without name,
\* category or location, coordinates that are not numbers, a batch with such
\* a landmark) is answered with the validation error 400, and no provider
\* call has been issued for it.
C15_MalformedRejected ==
    (Answered /\ Malformed(body)) => (response.status = 400 /\ ~providerCalls)

\* a body with a malformed landmark that POST significance lets through
C15_Witness ==
    /\ Answered /\ body.route = "score"
    /\ Malformed(body) /\ providerCalls
    /\ response.status = 500

\* scoreLandmarksSignificance of the client: response.data.results || [], and
\* every landmark with the score 0 when the request fails
ScoreLandmarksSignificance(ls, res) ==
    IF res.status = 200 THEN res.results
    ELSE [i \in 1..Len(ls) |-> [landmark |-> ls[i], score |-> 0]]

\* the landmarks of the batch all have a category, as the type Landmark has
Categorised(ls) == \A i \in DOMAIN ls : ls[i].category # Undefined

BatchAnswered == Answered /\ body.route = "batch" /\ BatchAccepts(body)

SignalOf(call) == IF call = "heritage" THEN "wikidata" ELSE call

\* the signals whose own check failed: its search call failed, or the reply
\* made the check throw
FailedSignals == {f.call : f \in failures} \cap Channels

\* C17 as stated: once the score is returned, the signal of every failed
\* provider call is 0.
C17_FailedProviderSignalZero ==
    Scored => \A f \in failures : chanScore[SignalOf(f.call)] = 0

\* C17: a signal whose check failed is 0, while a failed heritage query only
\* loses the heritage points and leaves the signal between 10 and 30; a
\* failing call changes the points and the progress of no other signal; the
\* request is answered 200 with min(100, the three signals + rating bonus +
\* category bonus).
C17_SignalFailureIsolated ==
    /\ [](Scored =>
            /\ response.status = 200
            /\ response.score = Min(maxScore,
                   chanScore["wikipedia"] + chanScore["wikidata"] + chanScore["osm"]
                   + RatingBonus(reqLandmark) + CategoryBonus(reqLandmark))
            /\ \A c \in FailedSignals : chanScore[c] = 0
            /\ (\E f \in failures : f.call = "heritage") =>
                   chanScore["wikidata"] \in 10..30)
    /\ [][\A f \in failures' \ failures : \A d \in Channels \ {SignalOf(f.call)} :
              chanScore'[d] = chanScore[d] /\ chanState'[d] = chanState[d]]_vars

\* the encyclopedia call failed after the other two signals got their points
C17_Witness ==
    /\ Scored
    /\ FailedSignals = {"wikipedia"}
    /\ chanScore["wikipedia"] = 0
    /\ chanScore["wikidata"] > 0 /\ chanScore["osm"] > 0
    /\ response.score = chanScore["wikidata"] + chanScore["osm"]
                        + RatingBonus(reqLandmark) + CategoryBonus(reqLandmark)

(***************************************************************************)
(* Scoring requests that share the server.  Every fetch of the checks      *)
(* carries next: { revalidate: SOURCE_REVALIDATE_SECONDS }, which asks the *)
(* framework to keep the reply by the URL of the call and to serve it to   *)
(* later calls of the same URL for that time; whether a call is served     *)
(* from the kept reply or from the provider is the framework's choice.     *)
(***************************************************************************)
SOURCE_REVALIDATE_SECONDS == 3600

Requests == {1, 2}

\* query.filter(Boolean).join(' ') of the name and the category
SearchQuery(landmark) == landmark.name \o " " \o landmark.category

\* the URL of the call of a check
CallUrl(c, landmark) ==
    IF c = "osm"
    THEN "osm?lat=" \o NatToString(landmark.location.lat)
             \o "&lon=" \o NatToString(landmark.location.lng)
    ELSE c \o "?search=" \o SearchQuery(landmark)

CallUrls == {CallUrl(c, l) : c \in Channels, l \in {Obelisk, Cafe}}

NotKept == [kept |-> FALSE]

Kept(points) == [kept |-> TRUE, points |-> points]

Waiting == [state |-> "waiting"]

InitShared ==
    /\ PipelineIdle
    /\ RequestIdle
    /\ chanScore = [c \in Channels |-> 0]
    /\ extratags = NotRead
    /\ body = Null
    /\ providerCalls = FALSE
    /\ tasks = <<>>
    /\ templateCalls = <<>>
    /\ SpeechIdle
    /\ dataCache = [url \in CallUrls |-> NotKept]
    /\ providerNow \in SignalReplies
    /\ requests \in [Requests -> [landmark : {Obelisk, Cafe}, pc : {"scoring"},
                                  checks : {[c \in Channels |-> Waiting]}]]

sharedFixed == <<pipelineVars, requestVars, scoringVars, validationVars, templateVars, speechVars>>

\* the content of a provider changes between two calls
ProviderChanges(replies) ==
    /\ replies # providerNow
    /\ \E r \in Requests : requests[r].pc = "scoring"
    /\ providerNow' = replies
    /\ UNCHANGED <<sharedFixed, dataCache, requests>>

\* the call of check c of request r is answered by the provider; the reply
\* is kept under the URL of the call
CheckFetches(r, c) ==
    /\ requests[r].pc = "scoring" /\ requests[r].checks[c] = Waiting
    /\ requests' = [requests EXCEPT ![r].checks[c] =
           [state |-> "resolved", points |-> providerNow[c], provider |-> providerNow[c]]]
    /\ dataCache' = [dataCache EXCEPT ![CallUrl(c, requests[r].landmark)] = Kept(providerNow[c])]
    /\ UNCHANGED <<sharedFixed, providerNow>>

\* the call of check c of request r is served with the reply kept for its URL
CheckServedFromCache(r, c) ==
    /\ requests[r].pc = "scoring" /\ requests[r].checks[c] = Waiting
    /\ LET entry == dataCache[CallUrl(c, requests[r].landmark)]
       IN  /\ entry.kept
           /\ requests' = [requests EXCEPT ![r].checks[c] =
                  [state |-> "resolved", points |-> entry.points, provider |-> providerNow[c]]]
    /\ UNCHANGED <<sharedFixed, dataCache, providerNow>>

\* the call throws or is answered not ok: the check returns 0, nothing is kept
CheckThrows(r, c) ==
    /\ requests[r].pc = "scoring" /\ requests[r].checks[c] = Waiting
    /\ requests' = [requests EXCEPT ![r].checks[c] =
           [state |-> "resolved", points |-> 0, provider |-> 0]]
    /\ UNCHANGED <<sharedFixed, dataCache, providerNow>>

\* Promise.all of request r resolved: the response of POST
SharedScoreReturns(r) ==
    /\ requests[r].pc = "scoring"
    /\ \A c \in Channels : requests[r].checks[c].state = "resolved"
    /\ requests' = [requests EXCEPT ![r] =
           [landmark |-> @.landmark, pc |-> "done", checks |-> @.checks,
            score |-> ScoreLandmarkSignificance(@.landmark, @.checks["wikipedia"].points,
                          @.checks["wikidata"].points, @.checks["osm"].points)]]
    /\ UNCHANGED <<sharedFixed, dataCache, providerNow>>

NextShared ==
    \/ \E replies \in SignalReplies : ProviderChanges(replies)
    \/ \E r \in Requests, c \in Channels : CheckFetches(r, c)
    \/ \E r \in Requests, c \in Channels : CheckServedFromCache(r, c)
    \/ \E r \in Requests, c \in Channels : CheckThrows(r, c)
    \/ \E r \in Requests : SharedScoreReturns(r)

SpecShared == InitShared /\ [][NextShared]_vars

\* C18: the score a request is answered with is the score of its landmark
\* for the replies the providers gave to its own calls, whatever other
\* requests ran before it or along with it.
C18_RequestsIndependent ==
    \A r \in Requests :
        requests # <<>> /\ requests[r].pc = "done" =>
            requests[r].score =
                ScoreLandmarkSignificance(requests[r].landmark,
                    requests[r].checks["wikipedia"].provider,
                    requests[r].checks["wikidata"].provider,
                    requests[r].checks["osm"].provider)

(***************************************************************************)
(* The shape of what findBestNearbyLandmark returns                        *)
(***************************************************************************)
HasAreaName(res) == "areaName" \in DOMAIN res /\ Truthy(res.areaName)

\* C19: a run of findBestNearbyLandmark that returns gives either null or a
\* result whose narrative is a text that is not empty and whose areaName is
\* filled in only when its landmark is null.
C19_CompleteResult ==
    (pc = "returned" /\ result # Null) =>
        /\ Truthy(result.narrative)
        /\ HasAreaName(result) => result.landmark = Null
        /\ result.landmark # Null => "areaName" \notin DOMAIN result

(***************************************************************************)
(* Calls of generateLandmarkNarrative, one after the other, on landmarks   *)
(* with and without a description and on either side of every distance     *)
(* threshold                                                               *)
(***************************************************************************)
MaxTemplateCalls == 3

TemplateLandmarks ==
    {Obelisk, CityMuseum, Hangar,
     [Cafe EXCEPT !.description = Undefined],
     [OldMill EXCEPT !.distance = 0],
     [Obelisk EXCEPT !.distance = 1000],
     [CityMuseum EXCEPT !.distance = 999, !.category = "Memorial Museum"],
     [OldMill EXCEPT !.distance = 499, !.category = "Historic Church"],
     [Cafe EXCEPT !.description = "Open daily."],
     Landmark("g", "Market Square", "Plaza", 2000, 0, "")}

InitTemplate ==
    /\ PipelineIdle
    /\ RequestIdle
    /\ ScoringIdle

CallGenerateLandmarkNarrative(landmark) ==
    /\ Len(templateCalls) < MaxTemplateCalls
    /\ templateCalls' = Append(templateCalls,
           [landmark |-> landmark, text |-> GenerateLandmarkNarrative(landmark)])
    /\ UNCHANGED <<pipelineVars, requestVars, scoringVars, validationVars, cacheVars, speechVars>>

NextTemplate == \E landmark \in TemplateLandmarks : CallGenerateLandmarkNarrative(landmark)

SpecTemplate == InitTemplate /\ [][NextTemplate]_vars

TemplateOpening(landmark) == "You're standing near " \o landmark.name \o ", "

NoneSelected == ScoringSucceeded /\ selectCalls[Len(selectCalls)].returned = Null

\* C21: selectBestLandmark is invoked only on the branch without a scorer or
\* in the catch of a scorer call that raised; a run whose scoring succeeded
\* and whose selections (the relaxed one included) returned none chooses no
\* landmark and goes on to the area narrative or returns null.
C21_HeuristicOnlyWithoutScores ==
    /\ [](usedHeuristic => ~ScoringSucceeded)
    /\ [](NoneSelected =>
            /\ ~usedHeuristic
            /\ bestLandmark = Null
            /\ pc \in {"fetchAreaNarrative", "returned"}
            /\ "AREA_FALLBACK" \in Range(stages) \/ result = Null
            /\ result # Null => result.landmark = Null)
    /\ [][(usedHeuristic' /\ ~usedHeuristic) =>
              \/ pc = "fetchLandmarks" /\ ~hasScoreSignificance
              \/ pc = "scoreSignificance" /\ significanceScores' = significanceScores]_vars

\* the scorer answered, no landmark reached 30 nor 20, and the run went on
\* to the area narrative, which it returned
C21_Witness ==
    /\ NoneSelected
    /\ Len(selectCalls) = 2
    /\ landmarks # <<>>
    /\ pc = "returned"
    /\ result # Null
    /\ result.landmark = Null
    /\ ~usedHeuristic

(***************************************************************************)
(* The page (handlePlayClick): findBestNearbyLandmark with                 *)
(* fetchNearbyLandmarks, a generateNarrative that wraps fetchNarrative,    *)
(* scoreLandmarksSignificance as the scorer, the threshold 30 and no       *)
(* fetchAreaNarrative.                                                     *)
(***************************************************************************)
\* what the batch request of the scorer ends with: an answer of the
\* significance route with a score for each landmark, an error status, or
\* no answer at all (status 0)
PutResponses(ls) ==
    {[status |-> 500], [status |-> 0]}
    \cup {[status |-> 200,
           results |-> [i \in 1..Len(ls) |-> [landmark |-> ls[i], score |-> f[i]]]] :
              f \in [1..Len(ls) -> ScoreValues]}

InitPage ==
    /\ pc = "fetchLandmarks"
    /\ hasGenerateNarrative = TRUE
    /\ hasScoreSignificance = TRUE
    /\ hasFetchAreaNarrative = FALSE
    /\ significanceThreshold = SIGNIFICANCE_THRESHOLD
    /\ landmarks = <<>>
    /\ significanceScores = [id \in {} |-> 0]
    /\ bestLandmark = Null
    /\ result = Null
    /\ stages = <<"SEARCHING">>
    /\ selectCalls = <<>>
    /\ usedHeuristic = FALSE
    /\ thrown = Undefined
    /\ narrativeError = Undefined
    /\ RequestIdle
    /\ ScoringIdle

\* axios.put('/api/significance', { landmarks }) settles
ScoringRequestSettles(res) ==
    /\ pc = "scoreSignificance" /\ reqKind = "none"
    /\ reqKind' = "put"
    /\ reqPc' = "done"
    /\ response' = res
    /\ UNCHANGED <<notRequest, reqLandmark, apiKey, chanState, chanDocs, titles, areaInfo,
                   sources, failures, llmContent>>

\* scoreLandmarksSignificance returns, from its try or from its catch, and
\* findBestNearbyLandmark goes on with what it returned
ScoreLandmarksSignificanceReturns ==
    /\ reqKind = "put"
    /\ ScoreSignificanceResolves(ScoreLandmarksSignificance(landmarks, response))

\* the wrapper of fetchNarrative returns r.narrative
PageNarrativeReturns(text) == GenerateNarrativeResolves(text)

\* fetchNarrative throws
PageNarrativeFails == GenerateNarrativeRejects

NextPage ==
    \/ \E ls \in NearbyLandmarks : TourSearchReturns(ls)
    \/ \E dataError \in ErrorBodies, message \in AxiosMessages :
           TourSearchFails(dataError, message)
    \/ /\ pc = "scoreSignificance"
       /\ \E res \in PutResponses(landmarks) : ScoringRequestSettles(res)
    \/ ScoreLandmarksSignificanceReturns
    \/ \E text \in NarrativeTexts : PageNarrativeReturns(text)
    \/ PageNarrativeFails

SpecPage == InitPage /\ [][NextPage]_vars

\* the batch request of the scorer failed and the scorer has returned
ScoringRequestFailed ==
    reqKind = "put" /\ response.status # 200 /\ pc # "scoreSignificance"

\* C22: when the page's scoring request fails, the run selects with
\* selectBestLandmark and returns a result with a landmark of the search.
C22_ScoringFailureFallsBack ==
    ScoringRequestFailed =>
        /\ usedHeuristic
        /\ bestLandmark \in Range(landmarks)
        /\ pc = "returned" => (result # Null /\ result.landmark = bestLandmark)

(***************************************************************************)
(* The narrative of a selected landmark                                    *)
(***************************************************************************)
NarrativeFailed == narrativeError # Undefined

\* C23: a run that has selected a landmark returns a result with that
\* landmark and a narrative; when the generateNarrative call failed, the
\* narrative is generateLandmarkNarrative of the landmark, nothing is raised
\* and the result is not null.
C23_SelectedLandmarkReturned ==
    /\ (bestLandmark # Null /\ Finished) =>
           /\ pc = "returned"
           /\ result # Null
           /\ result.landmark = bestLandmark
           /\ "narrative" \in DOMAIN result
    /\ NarrativeFailed =>
           /\ hasGenerateNarrative /\ bestLandmark # Null
           /\ pc = "returned" /\ thrown = Undefined
           /\ result # Null
           /\ result.narrative = GenerateLandmarkNarrative(bestLandmark)

\* the scorer chose the museum and the narrative call failed
C23_Witness ==
    /\ NarrativeFailed
    /\ ScoringSucceeded
    /\ bestLandmark = CityMuseum
    /\ result = [landmark |-> CityMuseum, narrative |-> GenerateLandmarkNarrative(CityMuseum)]

(***************************************************************************)
(* The scores the selection filters against                                *)
(***************************************************************************)
\* the batch request answered with a score for each landmark and the scorer
\* has returned them
ScoresReturned == reqKind = "put" /\ response.status = 200 /\ pc # "scoreSignificance"

\* C24: every landmark of the search result is filtered against the score
\* the scorer returned for that landmark, also when two landmarks of the
\* list carry the same id.
C24_OwnScoreConsulted ==
    ScoresReturned =>
        \A i \in DOMAIN landmarks : ScoreConsulted(landmarks[i]) = response.results[i].score

(***************************************************************************)
(* Ties of the selections                                                  *)
(***************************************************************************)
\* the positions of the landmarks that reach t at the smallest distance of
\* those that reach t
ClosestPositions(t) ==
    {i \in DOMAIN landmarks :
        /\ Qualifies(landmarks[i], t)
        /\ \A j \in DOMAIN landmarks :
               Qualifies(landmarks[j], t) => landmarks[j].distance >= landmarks[i].distance}

FirstOf(S) == CHOOSE i \in S : \A j \in S : i <= j

\* C25: when several landmarks that reach the threshold share the smallest
\* distance, selectBestLandmarkWithSignificance returns the first of them in
\* the order of the list.
C25_FirstOfTheClosest ==
    (pc = "selected" /\ ~usedHeuristic /\ ClosestPositions(significanceThreshold) # {}) =>
        bestLandmark = landmarks[FirstOf(ClosestPositions(significanceThreshold))]

\* the mill and the cafe are both 100 m away and both reach the threshold
C25_Witness ==
    /\ pc = "selected" /\ ~usedHeuristic
    /\ landmarks = <<OldMill, Cafe>>
    /\ OldMill.distance = Cafe.distance
    /\ ClosestPositions(significanceThreshold) = {1, 2}
    /\ bestLandmark = OldMill

\* h in tenths of a point: rating * 10 (the rating is kept in tenths), plus
\* max(0, 100 - distance / 10), plus 20 for a historical keyword
HistoricalKeyword(l) ==
    LET categoryLower == ToLowerCase(l.category)
    IN  \E keyword \in {"monument", "historic", "landmark", "museum", "memorial",
                        "plaza", "square", "cathedral", "church", "temple"} :
            Includes(categoryLower, keyword)

H(l) ==
    l.rating * 10
    + (IF 1000 - l.distance > 0 THEN 1000 - l.distance ELSE 0)
    + (IF HistoricalKeyword(l) THEN 200 ELSE 0)

MaximalPositions == {i \in DOMAIN landmarks : \A j \in DOMAIN landmarks : H(landmarks[i]) >= H(landmarks[j])}

\* C26: selectBestLandmark returns a landmark of the highest h, and of the
\* landmarks with the highest h the first in the order of the list.
C26_FirstOfTheBest ==
    (pc = "selected" /\ usedHeuristic /\ landmarks # <<>>) =>
        bestLandmark = landmarks[FirstOf(MaximalPositions)]

\* the bakery and the cafe have the same h; the bakery comes first
C26_Witness ==
    /\ pc = "selected" /\ usedHeuristic
    /\ landmarks = <<Bakery, Cafe>>
    /\ H(Bakery) = H(Cafe)
    /\ MaximalPositions = {1, 2}
    /\ bestLandmark = Bakery

(***************************************************************************)
(* dedupeSources against the (title, URL) pairs of its input                *)
(***************************************************************************)
\* the list handed to dedupeSources by POST
Gathered == chanDocs["wikipedia"] \o chanDocs["osm"] \o chanDocs["wikidata"]

SamePair(s, t) == s.title = t.title /\ s.url = t.url

\* the positions of list that hold the first occurrence of a (title, URL) pair
FirstPositions(list) ==
    {i \in DOMAIN list : \A j \in 1..(i - 1) : ~SamePair(list[j], list[i])}

RECURSIVE Keep(_, _, _)
Keep(list, positions, i) ==
    IF i > Len(list) THEN <<>>
    ELSE (IF i \in positions THEN <<list[i]>> ELSE <<>>) \o Keep(list, positions, i + 1)

FirstOccurrences(list) == Keep(list, FirstPositions(list), 1)

Deduped == reqKind = "landmark" /\ reqPc \in {"llm", "done"} /\ \A c \in Channels : chanState[c] = "resolved"

\* C27: dedupeSources returns exactly the first occurrence of each distinct
\* (title, URL) pair of its input, in input order, whatever characters the
\* titles and URLs contain, and applying it again changes nothing.
C27_FirstOccurrenceOfEachPair ==
    Deduped =>
        /\ sources = FirstOccurrences(Gathered)
        /\ DedupeSources(sources) = sources

(***************************************************************************)
(* The three signals of the significance score, one by one                  *)
(***************************************************************************)
\* the number of significance keywords in a snippet or description; none when it is absent
KeywordCount(text, keywords) ==
    IF text = Undefined THEN 0 ELSE KeywordMatches(ToLowerCase(text), keywords)

LooksLikeDisambiguation(hit) ==
    hit.snippet # Undefined /\ Includes(ToLowerCase(hit.snippet), "disambiguation")

EncyclopedicSignal(hit) ==
    IF hit = Null THEN 0
    ELSE Min(40, (IF LooksLikeDisambiguation(hit) THEN 5 ELSE 20)
                 + Min(20, 2 * KeywordCount(hit.snippet, WikipediaKeywords)))

\* C28: the encyclopedic signal is 0 when the search fails or has no hit, and
\* for every top hit it is min(40, base + min(20, 2k)), base 5 for a
\* disambiguation page and 20 otherwise, k the number of keywords in the
\* snippet, 0 for a hit without snippet.
C28_EncyclopedicSignal ==
    [][/\ \A hit \in WikipediaHits :
              CheckWikipediaReturns(hit) => chanScore'["wikipedia"] = EncyclopedicSignal(hit)
       /\ \A kind \in AreaFailureKinds :
              CheckFails("wikipedia", kind) => chanScore'["wikipedia"] = 0]_vars

\* 10 for the match plus 3 per keyword of the description, up to 20
MatchAndKeywordPoints(hit) == 10 + Min(20, 3 * KeywordCount(hit.description, WikidataKeywords))

HeritagePoints(outcome) == IF outcome = "heritage" THEN 10 ELSE 0

\* C29: the knowledge-graph signal is 0 when the entity search fails or has
\* no match; otherwise it is min(30, 10 + min(20, 3k) + h), k the number of
\* keywords in the description and h = 10 if a heritage fact is found; a
\* failed heritage lookup gives h = 0 and keeps the other points.  The entity
\* search fixes 10 + min(20, 3k), the heritage lookup adds h and the cap.
C29_KnowledgeGraphSignal ==
    [][/\ \A kind \in AreaFailureKinds :
              CheckFails("wikidata", kind) =>
                  chanState'["wikidata"] = "resolved" /\ chanScore'["wikidata"] = 0
       /\ \A hit \in WikidataHits :
              CheckWikidataReturns(hit) =>
                  IF hit = Null
                  THEN chanState'["wikidata"] = "resolved" /\ chanScore'["wikidata"] = 0
                  ELSE /\ chanState'["wikidata"] = "heritage"
                       /\ chanScore'["wikidata"] = MatchAndKeywordPoints(hit)
       /\ \A outcome \in HeritageOutcomes :
              CheckWikidataHeritageSettles(outcome) =>
                  /\ chanState'["wikidata"] = "resolved"
                  /\ chanScore'["wikidata"] =
                         Min(30, chanScore["wikidata"] + HeritagePoints(outcome))]_vars

\* an entity whose description has one keyword, and a heritage lookup that threw
C29_Witness ==
    /\ reqKind = "score" /\ chanState["wikidata"] = "resolved"
    /\ Failure("heritage", "throw") \in failures
    /\ chanScore["wikidata"] = MatchAndKeywordPoints([id |-> "Q1", description |-> "A historic tower."])
    /\ chanScore["wikidata"] = 13

Present(tag) == tag # Undefined

Indicator(b) == IF b THEN 1 ELSE 0

\* the geodata signal read off the tags as they are written
GeodataSignal(tags) ==
    IF tags = Null THEN 0
    ELSE Min(20, (IF tags.tourism \in TourismValues THEN 10
                  ELSE IF tags.tourism = "information" THEN 3 ELSE 0)
                 + 8 * Indicator(Present(tags.historic))
                 + 5 * Indicator(Present(tags.heritage))
                 + 2 * Indicator(Present(tags.wikipedia)))

\* the geodata signal with the tourism value compared in lower case and the
\* heritage:operator tag counted as a heritage tag
GeodataSignalAnyCase(tags) ==
    IF tags = Null THEN 0
    ELSE Min(20, (IF Present(tags.tourism) /\ ToLowerCase(tags.tourism) \in TourismValues THEN 10
                  ELSE IF Present(tags.tourism) /\ ToLowerCase(tags.tourism) = "information"
                  THEN 3 ELSE 0)
                 + 8 * Indicator(Present(tags.historic))
                 + 5 * Indicator(Present(tags.heritage) \/ Present(tags.heritage_operator))
                 + 2 * Indicator(Present(tags.wikipedia)))

GeodataRead == reqKind = "score" /\ chanState["osm"] = "resolved" /\ extratags # NotRead

GeodataFailed == reqKind = "score" /\ \E f \in failures : f.call = "osm"

\* C30: the geodata signal is min(20, t + 8 [historic] + 5 [heritage] +
\* 2 [wikipedia]), t = 10 for a tourism tag that is attraction, museum,
\* monument, artwork or viewpoint, 3 for information, 0 otherwise; it is 0
\* when the lookup fails or returns no tags.
C30_GeodataSignal ==
    /\ GeodataRead => chanScore["osm"] = GeodataSignal(extratags)
    /\ GeodataFailed => chanScore["osm"] = 0

\* C30 as the code has it: the tourism value is compared in lower case, and
\* the 5 points are given for a heritage tag or a heritage:operator tag.
C30_GeodataSignalAnyCase ==
    /\ GeodataRead => chanScore["osm"] = GeodataSignalAnyCase(extratags)
    /\ GeodataFailed => chanScore["osm"] = 0

\* a place tagged tourism=Attraction with a heritage:operator and no heritage tag
C30_Witness ==
    /\ GeodataRead
    /\ extratags = [tourism |-> "Attraction", historic |-> Undefined, heritage |-> Undefined,
                    heritage_operator |-> "whc", wikipedia |-> Undefined]
    /\ chanScore["osm"] = 15

(***************************************************************************)
(* The significance score as the sum of its five parts                      *)
(***************************************************************************)
\* r: 10 for a rating of 8.0 or more, 5 from 7.0 up to 8.0, else 0 (ratings in tenths)
RatingPart(l) ==
    IF l.rating >= 80 THEN 10 ELSE IF l.rating >= 70 /\ l.rating < 80 THEN 5 ELSE 0

\* c: 10 if the lower-cased category contains a keyword, else 0
CategoryPart(l) ==
    IF \E kw \in {"monument", "historic", "landmark", "museum", "memorial", "cathedral",
                  "church", "temple", "palace", "castle", "tower", "bridge"} :
           Includes(ToLowerCase(l.category), kw)
    THEN 10 ELSE 0

\* C31: scoreLandmarkSignificance returns min(100, encyclopedic +
\* knowledge-graph + geodata + r + c), with r by the rating (10 from 8.0,
\* 5 from 7.0, else 0) and c = 10 for a category that contains a keyword.
C31_SumOfFiveParts ==
    Scored =>
        response.score = Min(100, chanScore["wikipedia"] + chanScore["wikidata"] + chanScore["osm"]
                                  + RatingPart(reqLandmark) + CategoryPart(reqLandmark))

\* a place rated exactly 7.0 in a keyword category, with points from every signal
C31_Witness ==
    /\ Scored
    /\ reqLandmark = Footbridge
    /\ chanScore["wikipedia"] = 22 /\ chanScore["wikidata"] = 13 /\ chanScore["osm"] = 10
    /\ response.score = 60

(***************************************************************************)
(* The phrases of the template narrative                                    *)
(***************************************************************************)
\* a number given in tenths, written with one decimal: 13 is "1.3", 20 is "2.0"
OneDecimal(t) == NatToString(t \div 10) \o "." \o Digit(t % 10)

\* the distance in tenths of a kilometre, rounded half up
RoundedTenthsOfKm(d) == (d + 50) \div 100

DistancePhrase(d) ==
    IF d <= 100 THEN "right here"
    ELSE IF d < 500 THEN "just steps away"
    ELSE IF d < 1000 THEN "a short walk away"
    ELSE "about " \o OneDecimal(RoundedTenthsOfKm(d)) \o " kilometers away"

\* text continues with part from position from on
HasAt(text, from, part) ==
    /\ Len(text) >= from + Len(part) - 1
    /\ SubSeq(text, from, from + Len(part) - 1) = part

\* C32: the distance phrase follows the buckets for every distance, the
\* boundaries 100, 500 and 1000 included: within 100 m "right here", under
\* 500 m "just steps away", under 1000 m "a short walk away", otherwise
\* "about N.N kilometers away" with the kilometres rounded to one decimal.
C32_DistancePhrase ==
    \A i \in DOMAIN templateCalls :
        LET call == templateCalls[i]
        IN  HasAt(call.text, Len(TemplateOpening(call.landmark)) + 1,
                  DistancePhrase(call.landmark.distance) \o ". ")

\* the keyword groups of the contextual sentence, in their order
ContextGroups ==
    << [keywords |-> {"monument", "memorial"},
        sentence |-> "This monument stands as a testament to the people and events that shaped this place. "],
       [keywords |-> {"museum"},
        sentence |-> "This museum preserves and shares the stories of this region. "],
       [keywords |-> {"historic"},
        sentence |-> "This historic site has witnessed countless moments in history. "],
       [keywords |-> {"cathedral", "church", "temple"},
        sentence |-> "This sacred space has been a center of community and spirituality for generations. "],
       [keywords |-> {"plaza", "square"},
        sentence |-> "This public square has been a gathering place for the community. "] >>

MatchingGroups(category) ==
    {g \in DOMAIN ContextGroups :
        \E kw \in ContextGroups[g].keywords : Includes(ToLowerCase(category), kw)}

GenericSentence(category) ==
    "This " \o ToLowerCase(category) \o " holds significance in the local area."

\* C33: the contextual sentence is that of the first matching keyword group
\* in the order monument/memorial, museum, historic, cathedral/church/temple,
\* plaza/square; when no group matches, the narrative has the generic
\* category sentence instead, with or without a description.
C33_ContextualSentence ==
    \A i \in DOMAIN templateCalls :
        LET call == templateCalls[i]
            groups == MatchingGroups(call.landmark.category)
        IN  IF groups # {}
            THEN /\ Includes(call.text, ContextGroups[FirstOf(groups)].sentence)
                 /\ \A g \in DOMAIN ContextGroups \ {FirstOf(groups)} :
                        ~Includes(call.text, ContextGroups[g].sentence)
            ELSE Includes(call.text, GenericSentence(call.landmark.category))

(***************************************************************************)
(* The speech module (lib/tts) and the browser's speech synthesizer         *)
(*                                                                         *)
(* An utterance is known by the number of the speakText call that made it; *)
(* currentUtterance is that number, 0 for null.  The stages of an          *)
(* utterance: "voices" (speakText waits in ensureVoicesLoaded), "threw"    *)
(* (the voice was refused, the executor stopped), "pending" and "speaking" *)
(* (in the synthesizer's queue), "dropped" (speak() did nothing, as on iOS *)
(* outside a tap), "cancelled" (removed by cancel(), its last event not    *)
(* yet delivered), "over".                                                 *)
(***************************************************************************)
MaxSpeakCalls == 2

notSpeech == <<pipelineVars, requestVars, scoringVars, validationVars, cacheVars, templateVars>>

NewUtterance(stage) ==
    [stage |-> stage, promise |-> "pending", didStart |-> FALSE, watchdog |-> "unset"]

InQueue(us) == {i \in DOMAIN us : us[i].stage \in {"pending", "speaking"}}

\* synth.speaking and synth.pending
SynthSpeaking(us) == \E i \in DOMAIN us : us[i].stage = "speaking"
SynthPending(us) == \E i \in DOMAIN us : us[i].stage = "pending"

\* window.speechSynthesis.cancel(): the queue is emptied; the paused state stays
Cancel(us) ==
    [i \in DOMAIN us |-> IF i \in InQueue(us) THEN [us[i] EXCEPT !.stage = "cancelled"] ELSE us[i]]

\* resolve() or reject() of the promise of call u; a settled promise stays as it is
Settle(us, u, how) == IF us[u].promise = "pending" THEN [us EXCEPT ![u].promise = how] ELSE us

\* currentUtterance = utterance; isSpeaking = true; isPaused = false
NowSpeaking(u) == [currentUtterance |-> u, isSpeaking |-> TRUE, isPaused |-> FALSE]

\* speak(utterance) and the start of the watchdog timer
Spoken(us, u, accepted) ==
    [us EXCEPT ![u].stage = IF accepted THEN "pending" ELSE "dropped", ![u].watchdog = "armed"]

\* stopSpeaking
StopSpeaking ==
    /\ tts' = NoSpeech
    /\ utterances' = Cancel(utterances)
    /\ UNCHANGED synth

\* a pause that does not look at isSpeaking
PauseSpeakingUnguarded ==
    IF ~tts.isPaused
    THEN /\ synth' = [synth EXCEPT !.paused = TRUE]
         /\ tts' = [tts EXCEPT !.isPaused = TRUE]
         /\ UNCHANGED utterances
    ELSE UNCHANGED <<tts, synth, utterances>>

\* pauseSpeaking
PauseSpeaking ==
    IF tts.isSpeaking /\ ~tts.isPaused
    THEN /\ synth' = [synth EXCEPT !.paused = TRUE]
         /\ tts' = [tts EXCEPT !.isPaused = TRUE]
         /\ UNCHANGED utterances
    ELSE UNCHANGED <<tts, synth, utterances>>

\* resumeSpeaking
ResumeSpeaking ==
    IF tts.isSpeaking /\ tts.isPaused
    THEN /\ synth' = [synth EXCEPT !.paused = FALSE]
         /\ tts' = [tts EXCEPT !.isPaused = FALSE]
         /\ UNCHANGED utterances
    ELSE UNCHANGED <<tts, synth, utterances>>

\* speakText up to its first await or to its end: stopSpeaking, then either the
\* voice of the options is set (or refused: the executor throws and nothing
\* settles the promise), or the voices are there, or the call waits for them
SpeakText(voiceGiven, voiceTaken, voicesNow, accepted) ==
    /\ Len(utterances) < MaxSpeakCalls
    /\ LET u == Len(utterances) + 1
           stopped == Cancel(utterances)
       IN  IF voiceGiven /\ ~voiceTaken
           THEN /\ tts' = NoSpeech
                /\ utterances' = Append(stopped, NewUtterance("threw"))
           ELSE IF voiceGiven \/ voicesNow
           THEN /\ tts' = NowSpeaking(u)
                /\ utterances' = Spoken(Append(stopped, NewUtterance("voices")), u, accepted)
           ELSE /\ tts' = NoSpeech
                /\ utterances' = Append(stopped, NewUtterance("voices"))
    /\ UNCHANGED synth

\* ensureVoicesLoaded resolved (voiceschanged or its timer): the rest of speakText
VoicesLoaded(u, accepted) ==
    /\ u \in DOMAIN utterances /\ utterances[u].stage = "voices"
    /\ tts' = NowSpeaking(u)
    /\ utterances' = Spoken(utterances, u, accepted)
    /\ UNCHANGED <<synth, home, notSpeech>>

\* utterance.onend and utterance.onerror
OnEnd(us, u) == /\ tts' = NoSpeech
                /\ utterances' = Settle(us, u, "resolved")

OnError(us, u) == /\ tts' = NoSpeech
                  /\ utterances' = Settle(us, u, "rejected")

\* the synthesizer starts the next utterance of its queue: onstart
UtteranceStarts(u) ==
    /\ u \in DOMAIN utterances /\ utterances[u].stage = "pending"
    /\ ~synth.paused /\ ~SynthSpeaking(utterances)
    /\ \A i \in InQueue(utterances) : u <= i \/ utterances[i].stage # "pending"
    /\ utterances' = [utterances EXCEPT ![u].stage = "speaking", ![u].didStart = TRUE]
    /\ UNCHANGED <<tts, synth, home, notSpeech>>

\* the utterance was spoken to its end
UtteranceEnds(u) ==
    /\ u \in DOMAIN utterances /\ utterances[u].stage = "speaking" /\ ~synth.paused
    /\ OnEnd([utterances EXCEPT ![u].stage = "over"], u)
    /\ UNCHANGED <<synth, home, notSpeech>>

\* the synthesizer fails on an utterance of its queue
UtteranceErrors(u) ==
    /\ u \in InQueue(utterances)
    /\ OnError([utterances EXCEPT ![u].stage = "over"], u)
    /\ UNCHANGED <<synth, home, notSpeech>>

\* the last event of a cancelled utterance: an end event, an error event, or none
CancelledUtteranceEvent(u, event) ==
    /\ u \in DOMAIN utterances /\ utterances[u].stage = "cancelled"
    /\ LET over == [utterances EXCEPT ![u].stage = "over"]
       IN  CASE event = "end" -> OnEnd(over, u)
             [] event = "error" -> OnError(over, u)
             [] OTHER -> utterances' = over /\ UNCHANGED tts
    /\ UNCHANGED <<synth, home, notSpeech>>

\* the watchdog timer of call u
WatchdogFires(u) ==
    /\ u \in DOMAIN utterances /\ utterances[u].watchdog = "armed"
    /\ LET fired == [utterances EXCEPT ![u].watchdog = "fired"]
       IN  IF /\ tts.currentUtterance = u
              /\ ~utterances[u].didStart
              /\ ~SynthSpeaking(utterances) /\ ~SynthPending(utterances)
           THEN /\ tts' = NoSpeech
                /\ utterances' = Settle(Cancel(fired), u, "rejected")
           ELSE /\ utterances' = fired
                /\ UNCHANGED tts
    /\ UNCHANGED <<synth, home, notSpeech>>

BrowserNext ==
    \/ \E u \in 1..MaxSpeakCalls : UtteranceStarts(u) \/ UtteranceEnds(u) \/ UtteranceErrors(u)
    \/ \E u \in 1..MaxSpeakCalls, event \in {"end", "error", "none"} : CancelledUtteranceEvent(u, event)
    \/ \E u \in 1..MaxSpeakCalls : WatchdogFires(u)

(***************************************************************************)
(* The functions of the module, called in any order                        *)
(***************************************************************************)
InitSpeech ==
    /\ PipelineIdle
    /\ RequestIdle
    /\ ScoringIdle

CallSpeakText(voiceGiven, voicesNow, accepted) ==
    /\ SpeakText(voiceGiven, TRUE, voicesNow, accepted)
    /\ UNCHANGED <<home, notSpeech>>

CallPauseSpeaking == PauseSpeaking /\ UNCHANGED <<home, notSpeech>>

CallResumeSpeaking == ResumeSpeaking /\ UNCHANGED <<home, notSpeech>>

CallStopSpeaking == StopSpeaking /\ UNCHANGED <<home, notSpeech>>

NextSpeech ==
    \/ \E voiceGiven, voicesNow, accepted \in BOOLEAN : CallSpeakText(voiceGiven, voicesNow, accepted)
    \/ \E u \in 1..MaxSpeakCalls, accepted \in BOOLEAN : VoicesLoaded(u, accepted)
    \/ CallPauseSpeaking
    \/ CallResumeSpeaking
    \/ CallStopSpeaking
    \/ BrowserNext

SpecSpeech == InitSpeech /\ [][NextSpeech]_vars

SpeechConsistent ==
    /\ tts.isPaused => tts.isSpeaking
    /\ tts.isSpeaking <=> tts.currentUtterance # 0

\* C34: after any sequence of speakText, pauseSpeaking, resumeSpeaking and
\* stopSpeaking calls and end or error events, isPaused implies isSpeaking and
\* isSpeaking holds exactly when currentUtterance is set; pauseSpeaking and
\* resumeSpeaking change nothing when no speech is in progress; a pause of
\* speech in progress sets isPaused and the resume that follows it restores
\* isSpeaking and not isPaused.
C34_SpeechStateConsistent ==
    /\ [](SpeechConsistent)
    /\ [][/\ (CallPauseSpeaking \/ CallResumeSpeaking) /\ ~tts.isSpeaking => UNCHANGED speechVars
          /\ CallPauseSpeaking /\ tts.isSpeaking => tts'.isSpeaking /\ tts'.isPaused
          /\ CallResumeSpeaking /\ tts.isSpeaking /\ tts.isPaused =>
                 tts'.isSpeaking /\ ~tts'.isPaused]_vars

\* an utterance that was being spoken is paused
C34_Witness ==
    /\ tts.isSpeaking /\ tts.isPaused /\ synth.paused
    /\ utterances[tts.currentUtterance].stage = "speaking"

\* the utterance of the latest speakText call, while it is pending or spoken
LatestInQueue == utterances # <<>> /\ Len(utterances) \in InQueue(utterances)

\* C35: while the utterance of the latest speakText call is pending or being
\* spoken, isSpeaking is true and currentUtterance is that utterance, whatever
\* events of earlier utterances arrive late, and at most one utterance is
\* queued or speaking at a time.
C35_TracksLatestUtterance ==
    /\ LatestInQueue => tts.isSpeaking /\ tts.currentUtterance = Len(utterances)
    /\ Cardinality(InQueue(utterances)) <= 1

(***************************************************************************)
(* The page (Home) driving the speech module                                *)
(*                                                                         *)
(* home.run is where handlePlayClick stands: "idle", "finding" (it awaits  *)
(* the location and then findBestNearbyLandmark) or "speaking" (it awaits  *)
(* the promise of speakText call home.awaits).  hasNarrative says that     *)
(* currentLandmark and narrative are set, which is when AudioPlayer shows  *)
(* its buttons.  The silent utterance of primeTTS is left out.             *)
(***************************************************************************)
\* PlayButton: disabled={disabled || isLoading}
PlayEnabled == ~home.isLoading

\* handlePlayClick up to its first await
ClickPlay ==
    /\ PlayEnabled
    /\ IF home.isPlaying
       THEN IF home.isPaused
            THEN ResumeSpeaking /\ home' = [home EXCEPT !.isPaused = FALSE]
            ELSE PauseSpeaking /\ home' = [home EXCEPT !.isPaused = TRUE]
       ELSE /\ Len(utterances) < MaxSpeakCalls
            /\ home' = [home EXCEPT !.isLoading = TRUE, !.hasNarrative = FALSE, !.run = "finding"]
            /\ UNCHANGED <<tts, synth, utterances>>
    /\ UNCHANGED notSpeech

\* getCurrentLocation or findBestNearbyLandmark rejects: catch, then finally
TourFails ==
    /\ home.run = "finding"
    /\ home' = [home EXCEPT !.isLoading = FALSE, !.isPlaying = FALSE, !.isPaused = FALSE,
                            !.run = "idle"]
    /\ UNCHANGED <<tts, synth, utterances, notSpeech>>

\* findBestNearbyLandmark resolves to null
TourFindsNothing ==
    /\ home.run = "finding"
    /\ home' = [home EXCEPT !.isLoading = FALSE, !.run = "idle"]
    /\ UNCHANGED <<tts, synth, utterances, notSpeech>>

\* findBestNearbyLandmark resolves to a landmark and its narrative: the page
\* shows them and calls speakText with the voice 'marin', a string that the
\* utterance takes or refuses
TourFindsLandmark(voiceTaken, accepted) ==
    /\ home.run = "finding"
    /\ SpeakText(TRUE, voiceTaken, TRUE, accepted)
    /\ home' = [home EXCEPT !.hasNarrative = TRUE, !.isPlaying = TRUE, !.isPaused = FALSE,
                            !.run = "speaking", !.awaits = Len(utterances) + 1]
    /\ UNCHANGED notSpeech

\* the promise of speakText has settled: the rest of the try block or the
\* catch, then finally
SpeakTextSettles ==
    /\ home.run = "speaking"
    /\ utterances[home.awaits].promise # "pending"
    /\ home' = [home EXCEPT !.isLoading = FALSE, !.isPlaying = FALSE, !.isPaused = FALSE,
                            !.run = "idle", !.awaits = 0]
    /\ UNCHANGED <<tts, synth, utterances, notSpeech>>

\* the interval of the effect that runs while isPlaying
PollSpeakingState ==
    /\ home.isPlaying
    /\ home' = IF ~tts.isSpeaking /\ ~tts.isPaused
               THEN [home EXCEPT !.isPlaying = FALSE, !.isPaused = FALSE]
               ELSE [home EXCEPT !.isPaused = tts.isPaused]
    /\ UNCHANGED <<tts, synth, utterances, notSpeech>>

\* the buttons of AudioPlayer
HandlePause ==
    /\ home.hasNarrative /\ home.isPlaying /\ ~home.isPaused
    /\ PauseSpeaking
    /\ home' = [home EXCEPT !.isPaused = TRUE]
    /\ UNCHANGED notSpeech

HandleResume ==
    /\ home.hasNarrative /\ home.isPaused
    /\ ResumeSpeaking
    /\ home' = [home EXCEPT !.isPaused = FALSE]
    /\ UNCHANGED notSpeech

HandleStop ==
    /\ home.hasNarrative /\ home.isPlaying
    /\ StopSpeaking
    /\ home' = [home EXCEPT !.isPlaying = FALSE, !.isPaused = FALSE, !.hasNarrative = FALSE]
    /\ UNCHANGED notSpeech

NextHome ==
    \/ ClickPlay
    \/ TourFails
    \/ TourFindsNothing
    \/ \E voiceTaken, accepted \in BOOLEAN : TourFindsLandmark(voiceTaken, accepted)
    \/ SpeakTextSettles
    \/ PollSpeakingState
    \/ HandlePause
    \/ HandleResume
    \/ HandleStop
    \/ BrowserNext

SpecHome == InitSpeech /\ [][NextHome]_vars

\* what the browser, the timers and the awaiting handler do when they can:
\* queued utterances start and end unless the speech is paused, a cancelled
\* utterance gets its last event or none, timers fire, and a settled promise
\* resumes handlePlayClick
SpecHomeLive ==
    /\ SpecHome
    /\ \A u \in 1..MaxSpeakCalls :
           /\ WF_vars(UtteranceStarts(u))
           /\ WF_vars(UtteranceEnds(u))
           /\ WF_vars(\E event \in {"end", "error", "none"} : CancelledUtteranceEvent(u, event))
           /\ WF_vars(WatchdogFires(u))
    /\ WF_vars(SpeakTextSettles)
    /\ WF_vars(PollSpeakingState)

\* handleStop ran while handlePlayClick awaits speakText
StopPressed == home.run = "speaking" /\ ~home.hasNarrative

\* C36: the promise of a speakText call whose utterance was cancelled
\* eventually settles, whatever events the browser fires for it, and after
\* Stop is pressed during a narration the loading flag eventually returns to
\* false, which enables the play button again.
C36_StopReleasesLoading ==
    /\ \A u \in 1..MaxSpeakCalls :
           (u \in DOMAIN utterances /\ utterances[u].stage = "cancelled")
               ~> (u \in DOMAIN utterances /\ utterances[u].promise # "pending")
    /\ StopPressed ~> PlayEnabled

\* C37: while a narration is playing, the main play button is enabled and a
\* click on it pauses or resumes the narration instead of starting a tour.
C37_PlayButtonPauses ==
    /\ home.isPlaying => PlayEnabled
    /\ (home.isPlaying /\ PlayEnabled) => home.run # "finding"

\* the narration plays only inside a run of handlePlayClick, which holds the
\* loading flag until speakText settles
PlayingWhileLoading == home.isPlaying => home.isLoading /\ home.run = "speaking"

====
